---- MODULE Spec2Model ----
(***************************************************************************)
(* Coordination core of grod: the budget ledger (createBudgetManager),     *)
(* the job state machine (createOrchestrator) and the event bus.           *)
(*                                                                         *)
(* Every handler is an async function.  A handler runs synchronously up to *)
(* each `await`, so a handler is modelled as one action per synchronous    *)
(* segment; a store method (an async function without an await of its own) *)
(* reads or writes the store at the moment it is called.  Callers are the  *)
(* processes of Procs; in the serial specifications a call is made only    *)
(* when no other call is in flight, in the concurrent ones calls overlap.  *)
(***************************************************************************)
EXTENDS Integers, Sequences, FiniteSets, TLC

\* ---------------------------------------------------------------- bounds
MaxLimit == 2        \* largest limit handed to setBudget
MaxAmount == 2       \* largest amount / estimatedCost handed to a call
MaxSpent == 3        \* calls are made only while spent stays within this
MaxFunded == 3       \* allocations are made only while limit stays within this

MaxClock == 2        \* Date.now() runs from 1 to this
MaxEvents == 3       \* jobs are started and paused while the bus log is shorter
MaxCalls == 2        \* gateway calls are made while fewer have reached a queue
MaxSteps == 1        \* permissions.maxSteps of the jobs whose steps are counted
MaxHandlers == 2     \* handlers are subscribed while the bus has had fewer
MaxEmits == 3        \* emit is called from outside a handler while fewer events exist
MaxCompletions == 2  \* completion events are handled while the history is shorter
MaxSubmits == 4      \* calls are submitted to a provider queue while it has had fewer
optimizationThreshold == 2  \* options.optimizationThreshold of the pipeline
MaxVaried == 1       \* the first events of a long run are arbitrary, the rest alike
MaxOverflow == 2     \* events are handled until the history window is exceeded by this
MaxUntyped == 1      \* events without a task type are counted up to this
MaxSaves == 2        \* saveCheckpoint is called up to this many times
MaxStoreClock == 2   \* Date.now() of the memory store moves on from 1 up to this
MaxAgents == 3       \* a pipeline is made of up to this many agents

Scopes == {"global", "job-1", "job-2", "agent-1"}
JobIds == {"job-1", "job-2"}
Procs == {"A", "B"}
Limits == 0..MaxLimit
Amounts == 0..MaxAmount

\* ------------------------------------------------------------- the store
\* budgets.get(id) of a scope never written is undefined
NoBudget == << >>
NoArgs == << >>
NoLocals == << >>
NoResult == << >>

CURRENCY == [USD |-> "USD"]

\* `if (!budget)`
Truthy(b) == DOMAIN b # {}

\* { ...current, ...updates }
Spread(current, updates) ==
  [f \in (DOMAIN current) \cup (DOMAIN updates) |->
     IF f \in DOMAIN updates THEN updates[f] ELSE current[f]]

\* store.getBudget
getBudget(b, id) == b[id]

\* store.updateBudget
updateBudget(b, id, updates) == [b EXCEPT ![id] = Spread(b[id], updates)]

\* store.upsertBudget
upsertBudget(b, id, data) == [b EXCEPT ![id] = data]

VARIABLES
  budgets,     \* the store's map of budget scopes
  pc,          \* per caller: the segment its call is suspended before
  args,        \* per caller: the arguments of the call in flight
  loc,         \* per caller: the handler's local constants
  result,      \* per caller: the value its call resolved to
  pre,         \* history: the budgets at the moment the call was made
  unchecked,   \* history: scopes that took a spend beyond their limit
  granted,     \* history: per scope, the amounts allocated out of it
  recorded,    \* history: per scope, the amounts recorded as spent
  vouched,     \* history: <<scope, amount>> a successful canSpend covers
  rootLimit,   \* history: the limit the root scope was created with
  jobs,        \* the store's map of jobs
  timings,     \* per job: the timing object all saved copies of the job share
  generated,   \* the number of ids generateId has handed out
  now,         \* Date.now()
  events,      \* the events handed to eventBus.emit, in order
  refetched,   \* history: per event, the status a subscriber that fetches
               \* the job on delivery is given
  before,      \* history: jobs, timings and events when the call was made
  queues,      \* per provider queue: how often enqueue and generate were called
  monitor,     \* what the performance monitor was handed
  workLog,     \* what jobLogger.logWorkDone was handed
  candidates,  \* pipeline.candidates
  activeFunctions,  \* pipeline.activeFunctions
  shadowFunctions,  \* pipeline.shadowFunctions
  taskHistory, \* pipeline.taskHistory
  handlers,    \* the emitter's listeners, in the order they were added
  stack,       \* the emit calls that have not returned, innermost last
  emitted,     \* the events createEvent has made, in order
  delivered,   \* <<listener, event id>> per listener invocation, in order
  returned,    \* the ids of the events emit has returned to its caller
  escaped,     \* the ids of the events whose emit threw to its caller
  logged,      \* the ids of the events logger.error was called for
  unhandled,   \* the ids of the events a listener's promise rejected for
  processed,   \* history: per job, the nextStep calls that succeeded
  breaker,     \* per provider queue: its circuit breaker
  observed,    \* history: the completion events handled, counted
  memory,      \* the in-memory adapter's Map of the memory store
  checkpointed, \* history: the contexts at saveCheckpoint, the last store call
  composition, \* the run of a pipeline of agents: its loop's position and input
  executions   \* history: the calls of agent.execute, in order

ledgerVars == <<budgets, pc, args, loc, result>>
historyVars == <<pre, unchecked, granted, recorded, vouched, rootLimit>>
jobVars == <<jobs, timings, generated, now, events>>
jobHistoryVars == <<refetched, before>>
gatewayVars == <<queues, monitor, workLog>>
pipelineVars == <<candidates, activeFunctions, shadowFunctions, taskHistory>>
busVars ==
  <<handlers, stack, emitted, delivered, returned, escaped, logged, unhandled>>
storeVars == <<memory, checkpointed>>
composeVars == <<composition, executions>>
laterVars == <<storeVars, composeVars>>
elsewhereVars ==
  <<gatewayVars, pipelineVars, busVars, processed, breaker, observed,
    laterVars>>
vars ==
  <<ledgerVars, historyVars, jobVars, jobHistoryVars, elsewhereVars>>

\* ------------------------------------------------------ budget manager
\* budget.spent + estimatedCost > budget.limit
BudgetExceeded(budget, estimatedCost) ==
  budget.spent + estimatedCost > budget.limit

\* the value canSpend resolves to for the budget it read
canSpendResult(budget, estimatedCost) ==
  IF ~Truthy(budget) THEN [success |-> FALSE, error |-> "No budget found"]
  ELSE IF BudgetExceeded(budget, estimatedCost)
       THEN [success |-> FALSE, error |-> "Budget exceeded"]
       ELSE [success |-> TRUE]

\* const newSpent = budget.spent + amount
newSpent(budget, amount) == budget.spent + amount

\* the value recordSpend resolves to
recordSpendResult(budget, amount) ==
  [success |-> TRUE, remaining |-> budget.limit - newSpent(budget, amount)]

\* the scope setBudget upserts
freshBudget(scopeId, limit) ==
  [id |-> scopeId, limit |-> limit, spent |-> 0, currency |-> CURRENCY.USD]

\* mutant: the check lets one unit too many through
InsufficientBudget_OffByOne(parentBudget, amount) ==
  parentBudget.spent + amount > parentBudget.limit + 1

\* parentBudget.spent + amount > parentBudget.limit
InsufficientBudget(parentBudget, amount) ==
  parentBudget.spent + amount > parentBudget.limit

\* mutant: the parent is never charged
deductParent_Uncharged(b, fromScopeId, parentBudget, amount) == b

\* the store after allocate deducted from the parent
deductParent(b, fromScopeId, parentBudget, amount) ==
  updateBudget(b, fromScopeId, [spent |-> parentBudget.spent + amount])

\* mutant: an existing child is overwritten instead of topped up
fundChild_Overwrite(b, toScopeId, childBudget, amount) ==
  upsertBudget(b, toScopeId, freshBudget(toScopeId, amount))

\* the store after allocate funded the child
fundChild(b, toScopeId, childBudget, amount) ==
  IF Truthy(childBudget)
  THEN updateBudget(b, toScopeId, [limit |-> childBudget.limit + amount])
  ELSE upsertBudget(b, toScopeId, freshBudget(toScopeId, amount))

Suspend(p, at) == pc' = [pc EXCEPT ![p] = at]
Resolve(p, value) ==
  /\ pc' = [pc EXCEPT ![p] = "resolved"]
  /\ result' = [result EXCEPT ![p] = value]

\* the async function throws: its promise rejects with the error
Reject(p, error) ==
  /\ pc' = [pc EXCEPT ![p] = "rejected"]
  /\ result' = [result EXCEPT ![p] = [rejected |-> error]]

\* canSpend: up to `await store.getBudget(scopeId)`
canSpendCall(p, scopeId, estimatedCost) ==
  /\ pc[p] = "idle"
  /\ args' = [args EXCEPT ![p] = [op |-> "canSpend", scopeId |-> scopeId,
                                  estimatedCost |-> estimatedCost]]
  /\ loc' = [loc EXCEPT ![p] = [budget |-> getBudget(budgets, scopeId)]]
  /\ Suspend(p, "canSpend:check")
  /\ UNCHANGED <<budgets, result>>
  /\ UNCHANGED jobVars

\* canSpend: the checks and the return
canSpendCheck(p) ==
  /\ pc[p] = "canSpend:check"
  /\ Resolve(p, canSpendResult(loc[p].budget, args[p].estimatedCost))
  /\ UNCHANGED <<budgets, args, loc>>
  /\ UNCHANGED jobVars

\* recordSpend: up to `await store.getBudget(scopeId)`
recordSpendCall(p, scopeId, amount) ==
  /\ pc[p] = "idle"
  /\ args' = [args EXCEPT ![p] = [op |-> "recordSpend", scopeId |-> scopeId,
                                  amount |-> amount]]
  /\ loc' = [loc EXCEPT ![p] = [budget |-> getBudget(budgets, scopeId)]]
  /\ Suspend(p, "recordSpend:update")
  /\ UNCHANGED <<budgets, result>>
  /\ UNCHANGED jobVars

\* recordSpend: the existence check, up to `await store.updateBudget(...)`
recordSpendUpdate(p) ==
  /\ pc[p] = "recordSpend:update"
  /\ IF ~Truthy(loc[p].budget)
     THEN /\ Resolve(p, [success |-> FALSE, error |-> "No budget found"])
          /\ UNCHANGED budgets
     ELSE /\ budgets' = updateBudget(budgets, args[p].scopeId,
                          [spent |-> newSpent(loc[p].budget, args[p].amount)])
          /\ Suspend(p, "recordSpend:return")
          /\ UNCHANGED result
  /\ UNCHANGED <<args, loc>>
  /\ UNCHANGED jobVars

\* recordSpend: the log line and the return
recordSpendReturn(p) ==
  /\ pc[p] = "recordSpend:return"
  /\ Resolve(p, recordSpendResult(loc[p].budget, args[p].amount))
  /\ UNCHANGED <<budgets, args, loc>>
  /\ UNCHANGED jobVars

\* setBudget: up to `await store.upsertBudget(...)`
setBudgetCall(p, scopeId, limit) ==
  /\ pc[p] = "idle"
  /\ args' = [args EXCEPT ![p] = [op |-> "setBudget", scopeId |-> scopeId,
                                  limit |-> limit]]
  /\ budgets' = upsertBudget(budgets, scopeId, freshBudget(scopeId, limit))
  /\ Suspend(p, "setBudget:return")
  /\ UNCHANGED <<loc, result>>
  /\ UNCHANGED jobVars

\* setBudget: the return
setBudgetReturn(p) ==
  /\ pc[p] = "setBudget:return"
  /\ Resolve(p, [success |-> TRUE])
  /\ UNCHANGED <<budgets, args, loc>>
  /\ UNCHANGED jobVars

\* allocate: up to `await store.getBudget(fromScopeId)`
allocateCall(p, fromScopeId, toScopeId, amount) ==
  /\ pc[p] = "idle"
  /\ args' = [args EXCEPT ![p] = [op |-> "allocate",
                                  fromScopeId |-> fromScopeId,
                                  toScopeId |-> toScopeId,
                                  amount |-> amount]]
  /\ loc' = [loc EXCEPT ![p] =
               [parentBudget |-> getBudget(budgets, fromScopeId)]]
  /\ Suspend(p, "allocate:deduct")
  /\ UNCHANGED <<budgets, result>>
  /\ UNCHANGED jobVars

\* allocate: the two checks, up to `await store.updateBudget(fromScopeId, ...)`
allocateDeduct(p) ==
  /\ pc[p] = "allocate:deduct"
  /\ IF ~Truthy(loc[p].parentBudget)
     THEN /\ Resolve(p, [success |-> FALSE,
                         error |-> "Source budget not found"])
          /\ UNCHANGED budgets
     ELSE IF InsufficientBudget(loc[p].parentBudget, args[p].amount)
     THEN /\ Resolve(p, [success |-> FALSE,
                         error |-> "Insufficient budget in source"])
          /\ UNCHANGED budgets
     ELSE /\ budgets' = deductParent(budgets, args[p].fromScopeId,
                                     loc[p].parentBudget, args[p].amount)
          /\ Suspend(p, "allocate:readChild")
          /\ UNCHANGED result
  /\ UNCHANGED <<args, loc>>
  /\ UNCHANGED jobVars

\* allocate: up to `await store.getBudget(toScopeId)`
allocateReadChild(p) ==
  /\ pc[p] = "allocate:readChild"
  /\ loc' = [loc EXCEPT ![p] =
               [parentBudget |-> loc[p].parentBudget,
                childBudget |-> getBudget(budgets, args[p].toScopeId)]]
  /\ Suspend(p, "allocate:fund")
  /\ UNCHANGED <<budgets, args, result>>
  /\ UNCHANGED jobVars

\* allocate: up to `await store.updateBudget / upsertBudget(toScopeId, ...)`
allocateFund(p) ==
  /\ pc[p] = "allocate:fund"
  /\ budgets' = fundChild(budgets, args[p].toScopeId,
                          loc[p].childBudget, args[p].amount)
  /\ Suspend(p, "allocate:return")
  /\ UNCHANGED <<args, loc, result>>
  /\ UNCHANGED jobVars

\* allocate: the log line and the return
allocateReturn(p) ==
  /\ pc[p] = "allocate:return"
  /\ Resolve(p, [success |-> TRUE])
  /\ UNCHANGED <<budgets, args, loc>>
  /\ UNCHANGED jobVars

\* the caller's `await` of the call resumes with the result
Resume(p) ==
  /\ pc[p] \in {"resolved", "rejected"}
  /\ pc' = [pc EXCEPT ![p] = "idle"]
  /\ args' = [args EXCEPT ![p] = NoArgs]
  /\ loc' = [loc EXCEPT ![p] = NoLocals]
  /\ result' = [result EXCEPT ![p] = NoResult]
  /\ UNCHANGED budgets
  /\ UNCHANGED jobVars

\* --------------------------------------------------------- orchestrator
JOB_STATUS == [CREATED |-> "created", RUNNING |-> "running",
               PAUSED |-> "paused", COMPLETED |-> "completed",
               FAILED |-> "failed"]

Undefined == << >>
NoJob == << >>
\* the ids generateId hands out, and the id of a job that the store held
\* before the orchestrator was created
IdPool == <<"job-1">>
StoredId == "job-2"

\* `permissions || { allowTools: false, requireApproval: true, maxSteps: 10 }`
defaultPermissions ==
  [allowTools |-> FALSE, requireApproval |-> TRUE, maxSteps |-> 10]

\* `a || b`
OrElse(a, b) == IF Truthy(a) THEN a ELSE b

\* store.getJob: the stored object itself
getJob(js, id) == js[id]

\* the object identities that the store or a handler holds
HeldObjs ==
  { jobs[j].obj : j \in { k \in JobIds : Truthy(jobs[k]) } }
    \cup { loc[q].job.obj :
             q \in { r \in Procs : "job" \in DOMAIN loc[r]
                                   /\ Truthy(loc[r].job) } }

\* an object identity that neither the store nor a handler holds
FreshObj ==
  CHOOSE n \in 1..(Cardinality(HeldObjs) + 1) :
    /\ n \notin HeldObjs
    /\ \A m \in 1..(n - 1) : m \in HeldObjs

\* a saveJob that stores nothing
saveJob_Lost(js, job) == js

\* store.saveJob: jobs[job.id] = { ...job }, a new object
saveJob(js, job) == [js EXCEPT ![job.id] = [job EXCEPT !.obj = FreshObj]]

\* `job.status = status` as every holder of the object `job` sees it
setStatus(l, job, status) ==
  [q \in Procs |->
     IF "job" \in DOMAIN l[q] /\ Truthy(l[q].job) /\ l[q].job.obj = job.obj
     THEN [l[q] EXCEPT !.job.status = status]
     ELSE l[q]]

\* `Invalid state transition from ${job.status}`
invalidTransitionError(status) ==
  [created |-> "Invalid state transition from created",
   running |-> "Invalid state transition from running",
   paused |-> "Invalid state transition from paused",
   completed |-> "Invalid state transition from completed",
   failed |-> "Invalid state transition from failed"][status]

\* a check that lets a finished job start again
InvalidTransition_FinishedAllowed(status) == status = JOB_STATUS.RUNNING

\* a check that lets a running job start again
InvalidTransition_RunningAllowed(status) ==
  /\ status # JOB_STATUS.CREATED
  /\ status # JOB_STATUS.PAUSED
  /\ status # JOB_STATUS.RUNNING

\* job.status !== CREATED && job.status !== PAUSED
InvalidTransition(status) ==
  status # JOB_STATUS.CREATED /\ status # JOB_STATUS.PAUSED

\* a check that lets a job be paused before it was started
NotRunning_CreatedAllowed(status) ==
  status # JOB_STATUS.RUNNING /\ status # JOB_STATUS.CREATED

\* a check that takes a paused job for a running one
NotRunning_PausedAllowed(status) ==
  status # JOB_STATUS.RUNNING /\ status # JOB_STATUS.PAUSED

\* job.status !== RUNNING
NotRunning(status) == status # JOB_STATUS.RUNNING

\* a start that stamps the time whether or not one is there
markStarted_Always(timing, t) == Spread(timing, [started |-> t])

\* `if (!job.timing.started) job.timing.started = Date.now()`
markStarted(timing, t) ==
  IF "started" \in DOMAIN timing /\ timing.started # 0
  THEN timing
  ELSE Spread(timing, [started |-> t])

\* eventBus.emit(name, { jobId })
emit(log, name, jobId) ==
  Append(log, [name |-> name, data |-> [jobId |-> jobId]])

\* createJob: the new job, up to `await store.saveJob(job)`
createJobCall(p, initialContext, permissions) ==
  /\ pc[p] = "idle"
  /\ generated < Len(IdPool)
  /\ LET job == [id |-> IdPool[generated + 1],
                 status |-> JOB_STATUS.CREATED,
                 context |-> OrElse(initialContext, << >>),
                 permissions |-> OrElse(permissions, defaultPermissions),
                 history |-> << >>,
                 obj |-> 0]
     IN /\ jobs' = saveJob(jobs, job)
        /\ timings' = [timings EXCEPT ![job.id] = [created |-> now]]
        /\ loc' = [loc EXCEPT ![p] = [id |-> job.id]]
  /\ generated' = generated + 1
  /\ args' = [args EXCEPT ![p] = [op |-> "createJob",
                                  initialContext |-> initialContext,
                                  permissions |-> permissions]]
  /\ Suspend(p, "createJob:return")
  /\ UNCHANGED <<budgets, result, now, events>>

\* createJob: `return job.id`
createJobReturn(p) ==
  /\ pc[p] = "createJob:return"
  /\ Resolve(p, loc[p].id)
  /\ UNCHANGED <<budgets, args, loc, jobVars>>

\* startJob: up to `await store.getJob(jobId)`
startJobCall(p, jobId) ==
  /\ pc[p] = "idle"
  /\ args' = [args EXCEPT ![p] = [op |-> "startJob", jobId |-> jobId]]
  /\ loc' = [loc EXCEPT ![p] = [job |-> getJob(jobs, jobId)]]
  /\ Suspend(p, "startJob:check")
  /\ UNCHANGED <<budgets, result, jobVars>>

\* startJob: the two checks, up to budgetManager.canSpend's
\* `await store.getBudget(scopeId)`
startJobCheck(p) ==
  /\ pc[p] = "startJob:check"
  /\ IF ~Truthy(loc[p].job)
     THEN /\ Resolve(p, [success |-> FALSE, error |-> "Job not found"])
          /\ UNCHANGED loc
     ELSE IF InvalidTransition(loc[p].job.status)
     THEN /\ Resolve(p, [success |-> FALSE,
                         error |-> invalidTransitionError(
                                     loc[p].job.status)])
          /\ UNCHANGED loc
     ELSE /\ loc' = [loc EXCEPT ![p] =
                       [job |-> loc[p].job,
                        budget |-> getBudget(budgets, args[p].jobId)]]
          /\ Suspend(p, "startJob:canSpend")
          /\ UNCHANGED result
  /\ UNCHANGED <<budgets, args, jobVars>>

\* startJob: canSpend(jobId) checks and returns, up to startJob's await of it
startJobCanSpend(p) ==
  /\ pc[p] = "startJob:canSpend"
  /\ loc' = [loc EXCEPT ![p] =
               [job |-> loc[p].job,
                budgetOk |-> canSpendResult(loc[p].budget, 0)]]
  /\ Suspend(p, "startJob:update")
  /\ UNCHANGED <<budgets, args, result, jobVars>>

\* a failure of startJob's own in place of the ledger's
budgetFailure_Rewrapped(budgetOk) ==
  [success |-> FALSE, error |-> "Budget check failed"]

\* what startJob resolves to when the budget check failed
budgetFailure(budgetOk) == budgetOk

\* startJob: `if (!budgetOk.success) return budgetOk`, the update of the job,
\* up to `await store.saveJob(job)`
startJobUpdate(p) ==
  /\ pc[p] = "startJob:update"
  /\ IF ~loc[p].budgetOk.success
     THEN /\ Resolve(p, budgetFailure(loc[p].budgetOk))
          /\ UNCHANGED <<loc, jobs, timings>>
     ELSE /\ loc' = setStatus(loc, loc[p].job, JOB_STATUS.RUNNING)
          /\ timings' = [timings EXCEPT ![args[p].jobId] =
                           markStarted(timings[args[p].jobId], now)]
          /\ jobs' = saveJob(jobs, [loc[p].job EXCEPT
                                      !.status = JOB_STATUS.RUNNING])
          /\ Suspend(p, "startJob:emit")
          /\ UNCHANGED result
  /\ UNCHANGED <<budgets, args, generated, now, events>>

\* startJob: `eventBus.emit("job_started", { jobId })` and the return
startJobEmit(p) ==
  /\ pc[p] = "startJob:emit"
  /\ events' = emit(events, "job_started", args[p].jobId)
  /\ Resolve(p, [success |-> TRUE])
  /\ UNCHANGED <<budgets, args, loc, jobs, timings, generated, now>>

\* pauseJob: up to `await store.getJob(jobId)`
pauseJobCall(p, jobId) ==
  /\ pc[p] = "idle"
  /\ args' = [args EXCEPT ![p] = [op |-> "pauseJob", jobId |-> jobId]]
  /\ loc' = [loc EXCEPT ![p] = [job |-> getJob(jobs, jobId)]]
  /\ Suspend(p, "pauseJob:update")
  /\ UNCHANGED <<budgets, result, jobVars>>

\* pauseJob: the two checks and the update, up to `await store.saveJob(job)`
pauseJobUpdate(p) ==
  /\ pc[p] = "pauseJob:update"
  /\ IF ~Truthy(loc[p].job)
     THEN /\ Resolve(p, [success |-> FALSE, error |-> "Job not found"])
          /\ UNCHANGED <<loc, jobs>>
     ELSE IF NotRunning(loc[p].job.status)
     THEN /\ Resolve(p, [success |-> FALSE,
                         error |-> "Only running jobs can be paused"])
          /\ UNCHANGED <<loc, jobs>>
     ELSE /\ loc' = setStatus(loc, loc[p].job, JOB_STATUS.PAUSED)
          /\ jobs' = saveJob(jobs, [loc[p].job EXCEPT
                                      !.status = JOB_STATUS.PAUSED])
          /\ Suspend(p, "pauseJob:emit")
          /\ UNCHANGED result
  /\ UNCHANGED <<budgets, args, timings, generated, now, events>>

\* pauseJob: `eventBus.emit("job_paused", { jobId })` and the return
pauseJobEmit(p) ==
  /\ pc[p] = "pauseJob:emit"
  /\ events' = emit(events, "job_paused", args[p].jobId)
  /\ Resolve(p, [success |-> TRUE])
  /\ UNCHANGED <<budgets, args, loc, jobs, timings, generated, now>>

\* nextStep: up to `await store.getJob(jobId)`
nextStepCall(p, jobId, input) ==
  /\ pc[p] = "idle"
  /\ args' = [args EXCEPT ![p] = [op |-> "nextStep", jobId |-> jobId,
                                  input |-> input]]
  /\ loc' = [loc EXCEPT ![p] = [job |-> getJob(jobs, jobId)]]
  /\ Suspend(p, "nextStep:check")
  /\ UNCHANGED <<budgets, result, jobVars>>

\* nextStep: the check and the placeholder return
nextStepCheck(p) ==
  /\ pc[p] = "nextStep:check"
  /\ IF ~Truthy(loc[p].job) \/ NotRunning(loc[p].job.status)
     THEN Resolve(p, [success |-> FALSE, error |-> "Job not running"])
     ELSE Resolve(p, [success |-> TRUE,
                      message |-> "Step processed (placeholder)"])
  /\ UNCHANGED <<budgets, args, loc, jobVars>>

\* Date.now() moves on
Tick ==
  /\ now < MaxClock
  /\ now' = now + 1
  /\ UNCHANGED <<ledgerVars, jobs, timings, generated, events>>

\* ------------------------------------------------------------ histories
Quiet == \A q \in Procs : pc[q] = "idle"

Calls(p, op) == pc[p] = "idle" /\ pc'[p] # "idle" /\ args'[p].op = op
Steps(p, from, to) == pc[p] = from /\ pc'[p] = to

\* the budgets as they were when each call in flight was made
TrackPre ==
  pre' = [p \in Procs |->
            IF pc'[p] = "idle" THEN NoBudget
            ELSE IF pc[p] = "idle" THEN budgets
            ELSE pre[p]]

\* a scope is unchecked from a recordSpend that the budget it read could not
\* cover until the next setBudget of the scope
TrackUnchecked ==
  unchecked' =
    { s \in Scopes :
        /\ ~ \E p \in Procs : Calls(p, "setBudget") /\ args'[p].scopeId = s
        /\ \/ s \in unchecked
           \/ \E p \in Procs :
                /\ Steps(p, "recordSpend:update", "recordSpend:return")
                /\ args[p].scopeId = s
                /\ loc[p].budget.spent + args[p].amount > loc[p].budget.limit }

\* the sum of the amounts of the allocate calls out of each scope that
\* reported success since the scope's last setBudget
TrackGranted ==
  granted' = [s \in Scopes |->
    IF \E p \in Procs : Calls(p, "setBudget") /\ args'[p].scopeId = s THEN 0
    ELSE IF \E p \in Procs : /\ Steps(p, "allocate:return", "resolved")
                             /\ args[p].fromScopeId = s
    THEN granted[s] + (CHOOSE a \in Amounts : \E p \in Procs :
                         /\ Steps(p, "allocate:return", "resolved")
                         /\ args[p].fromScopeId = s /\ args[p].amount = a)
    ELSE granted[s]]

\* the sum of the amounts of the recordSpend calls on each scope that
\* reported success since the scope's last setBudget
TrackRecorded ==
  recorded' = [s \in Scopes |->
    IF \E p \in Procs : Calls(p, "setBudget") /\ args'[p].scopeId = s THEN 0
    ELSE IF \E p \in Procs : /\ Steps(p, "recordSpend:return", "resolved")
                             /\ args[p].scopeId = s
    THEN recorded[s] + (CHOOSE a \in Amounts : \E p \in Procs :
                          /\ Steps(p, "recordSpend:return", "resolved")
                          /\ args[p].scopeId = s /\ args[p].amount = a)
    ELSE recorded[s]]

\* the last successful canSpend vouches for one recordSpend of that scope and
\* amount, until a recordSpend uses it or another canSpend succeeds
TrackVouched ==
  vouched' =
    IF \E p \in Procs : Steps(p, "canSpend:check", "resolved")
                          /\ result'[p].success
    THEN { v \in Scopes \X Amounts :
             \E p \in Procs :
               /\ Steps(p, "canSpend:check", "resolved")
               /\ <<args[p].scopeId, args[p].estimatedCost>> = v }
    ELSE IF \E p \in Procs : Calls(p, "recordSpend")
    THEN {}
    ELSE vouched

\* --------------------------------------------------------- the callers
\* values the calls are made with stay within the bounds
WithinSpent(scopeId, amount) ==
  Truthy(budgets[scopeId]) => budgets[scopeId].spent + amount <= MaxSpent
WithinFunded(scopeId, amount) ==
  IF Truthy(budgets[scopeId])
  THEN budgets[scopeId].limit + amount <= MaxFunded
  ELSE amount <= MaxFunded

NoJobs ==
  /\ jobs = [j \in JobIds |-> NoJob]
  /\ timings = [j \in JobIds |-> << >>]
  /\ generated = 0
  /\ now = 1
  /\ events = << >>
  /\ refetched = << >>
  /\ before = [p \in Procs |-> << >>]

\* the task types, providers and models of the configuration
TaskTypes == {"bypass_task", "summarize"}
Providers == {"openai", "anthropic", "local"}

\* a provider queue's circuit breaker before any call: closed, nothing in
\* its window, no call at the provider, none failed fast
closedBreaker ==
  [state |-> "closed", window |-> << >>, openedAt |-> 0, pending |-> 0,
   trial |-> FALSE, rejected |-> 0]

\* nothing registered with the pipeline or the bus, no provider called
Elsewhere ==
  /\ queues = [q \in Providers |-> [enqueued |-> 0, generated |-> 0]]
  /\ monitor = [latencies |-> 0, throughputs |-> 0, errors |-> 0]
  /\ workLog = << >>
  /\ candidates = [t \in TaskTypes |-> << >>]
  /\ activeFunctions = [t \in TaskTypes |-> << >>]
  /\ shadowFunctions = [t \in TaskTypes |-> << >>]
  /\ taskHistory = [t \in TaskTypes |-> << >>]
  /\ handlers = << >>
  /\ stack = << >>
  /\ emitted = << >>
  /\ delivered = << >>
  /\ returned = << >>
  /\ escaped = << >>
  /\ logged = << >>
  /\ unhandled = << >>
  /\ processed = [j \in JobIds |-> 0]
  /\ breaker = [q \in Providers |-> closedBreaker]
  /\ observed = [typed |-> [t \in TaskTypes |-> [count |-> 0, total |-> 0]],
                 untyped |-> 0]
  /\ memory = << >>
  /\ checkpointed = [saved |-> << >>, saves |-> 0, last |-> [op |-> "none"]]
  /\ composition = [state |-> "idle"]
  /\ executions = << >>

IdleCallers ==
  /\ Elsewhere
  /\ pc = [p \in Procs |-> "idle"]
  /\ args = [p \in Procs |-> NoArgs]
  /\ loc = [p \in Procs |-> NoLocals]
  /\ result = [p \in Procs |-> NoResult]
  /\ pre = [p \in Procs |-> NoBudget]
  /\ unchecked = {}
  /\ granted = [s \in Scopes |-> 0]
  /\ recorded = [s \in Scopes |-> 0]
  /\ vouched = {}

IdleLedger == NoJobs /\ IdleCallers

\* ----------------------------------------------- the ledger, call by call
HistoryLedger ==
  /\ TrackPre
  /\ TrackUnchecked
  /\ UNCHANGED <<granted, recorded, vouched, rootLimit>>
  /\ UNCHANGED jobHistoryVars
  /\ UNCHANGED elsewhereVars

InitLedger ==
  /\ budgets = [s \in Scopes |-> NoBudget]
  /\ rootLimit = 0
  /\ IdleLedger

\* one caller, awaiting each call before it makes the next, on two scopes
Caller == "A"
LedgerScopes == {"global", "job-1"}

NextLedger ==
  \/ \E s \in LedgerScopes, e \in Amounts :
       Quiet /\ canSpendCall(Caller, s, e) /\ HistoryLedger
  \/ \E p \in Procs : canSpendCheck(p) /\ HistoryLedger
  \/ \E s \in LedgerScopes, a \in Amounts :
       Quiet /\ WithinSpent(s, a) /\ recordSpendCall(Caller, s, a)
             /\ HistoryLedger
  \/ \E p \in Procs : recordSpendUpdate(p) /\ HistoryLedger
  \/ \E p \in Procs : recordSpendReturn(p) /\ HistoryLedger
  \/ \E s \in LedgerScopes, l \in Limits :
       Quiet /\ setBudgetCall(Caller, s, l) /\ HistoryLedger
  \/ \E p \in Procs : setBudgetReturn(p) /\ HistoryLedger
  \/ \E f \in LedgerScopes, t \in LedgerScopes, a \in Amounts :
       Quiet /\ WithinFunded(t, a) /\ allocateCall(Caller, f, t, a)
             /\ HistoryLedger
  \/ \E p \in Procs : allocateDeduct(p) /\ HistoryLedger
  \/ \E p \in Procs : allocateReadChild(p) /\ HistoryLedger
  \/ \E p \in Procs : allocateFund(p) /\ HistoryLedger
  \/ \E p \in Procs : allocateReturn(p) /\ HistoryLedger
  \/ \E p \in Procs : Resume(p) /\ HistoryLedger

SpecLedger == InitLedger /\ [][NextLedger]_vars

\* C1 as stated: in every reachable state every budget scope has
\* spent <= limit, whatever setBudget, recordSpend and allocate calls were made.
C1_SpentWithinLimit ==
  \A s \in Scopes :
    Truthy(budgets[s]) => budgets[s].spent <= budgets[s].limit

\* C1 (amended): a scope has spent <= limit in every reachable state as long as
\* every recordSpend made on it since its last setBudget asked for no more than
\* the scope had left (spent + amount <= limit when the call was made).
C1_CheckedSpentWithinLimit ==
  \A s \in Scopes :
    (Truthy(budgets[s]) /\ s \notin unchecked)
      => budgets[s].spent <= budgets[s].limit

\* C1 witness: after setBudget, allocate and covered recordSpend calls both
\* scopes are spent to their limit.
C1_Witness ==
  /\ Quiet
  /\ unchecked = {}
  /\ \A s \in LedgerScopes :
       /\ Truthy(budgets[s])
       /\ budgets[s].limit = MaxLimit
       /\ budgets[s].spent = budgets[s].limit

\* the limit and the spent a scope counts with before it exists
limitBefore(b) == IF Truthy(b) THEN b.limit ELSE 0
spentBefore(b) == IF Truthy(b) THEN b.spent ELSE 0

ResolvedAllocate(p) ==
  /\ pc[p] = "resolved"
  /\ args[p].op = "allocate"
  /\ Truthy(pre[p][args[p].fromScopeId])

\* C3 as stated: allocate on an existing parent succeeds iff parent.spent +
\* amount <= parent.limit, and on success parent.spent rose by amount,
\* child.limit rose by amount (from 0 for a new child) and child.spent is
\* what it was (0 for a new child).
C3_AllocateEffect ==
  \A p \in Procs :
    ResolvedAllocate(p) =>
      LET from == args[p].fromScopeId
          to == args[p].toScopeId
          amount == args[p].amount
          parent == pre[p][from]
          child == pre[p][to]
      IN /\ result[p].success <=> parent.spent + amount <= parent.limit
         /\ result[p].success =>
              /\ budgets[from].spent = parent.spent + amount
              /\ budgets[to].limit = limitBefore(child) + amount
              /\ budgets[to].spent = spentBefore(child)

\* C3 (amended): allocate on an existing parent succeeds iff parent.spent +
\* amount <= parent.limit; on success parent.spent rose by amount and
\* child.limit rose by amount (from 0 for a new child, created with spent 0),
\* and child.spent is unchanged when the child is another scope than the
\* parent; when parent and child are the same scope, its spent and its limit
\* both rose by amount.
C3_AllocateEffectDistinct ==
  \A p \in Procs :
    ResolvedAllocate(p) =>
      LET from == args[p].fromScopeId
          to == args[p].toScopeId
          amount == args[p].amount
          parent == pre[p][from]
          child == pre[p][to]
      IN /\ result[p].success <=> parent.spent + amount <= parent.limit
         /\ result[p].success =>
              /\ budgets[from].spent = parent.spent + amount
              /\ budgets[to].limit = limitBefore(child) + amount
              /\ from # to => budgets[to].spent = spentBefore(child)
              /\ from = to => budgets[to].spent = parent.spent + amount
              /\ ~Truthy(child) => budgets[to] = freshBudget(to, amount)

\* C3 witness: a successful allocate of a positive amount into an existing
\* child that had already spent.
C3_Witness ==
  \E p \in Procs :
    /\ ResolvedAllocate(p)
    /\ result[p].success
    /\ args[p].fromScopeId # args[p].toScopeId
    /\ args[p].amount > 0
    /\ Truthy(pre[p][args[p].toScopeId])
    /\ pre[p][args[p].toScopeId].spent > 0
    /\ pre[p][args[p].fromScopeId].spent > 0

\* ------------------------------------------- the ledger, calls overlapping
\* Two callers make recordSpend and allocate calls without awaiting
\* each other, on a root scope that setBudget created and a child scope.
HistoryConc ==
  /\ TrackGranted
  /\ TrackRecorded
  /\ UNCHANGED <<pre, unchecked, vouched, rootLimit>>
  /\ UNCHANGED jobHistoryVars
  /\ UNCHANGED elsewhereVars

\* no more is asked of a scope than MaxSpent in all
WithinAsked(scopeId, amount) ==
  recorded[scopeId] + granted[scopeId] + amount <= MaxSpent

InitConc ==
  /\ \E l \in Limits \ {0} :
       /\ budgets = [s \in Scopes |->
                       IF s = "global" THEN freshBudget(s, l) ELSE NoBudget]
       /\ rootLimit = l
  /\ IdleLedger

NextConc ==
  \/ \E s \in LedgerScopes, e \in Amounts :
       Quiet /\ canSpendCall(Caller, s, e) /\ HistoryConc
  \/ \E p \in Procs : canSpendCheck(p) /\ HistoryConc
  \/ \E p \in Procs, s \in LedgerScopes, a \in Amounts \ {0} :
       WithinSpent(s, a) /\ WithinAsked(s, a) /\ recordSpendCall(p, s, a)
         /\ HistoryConc
  \/ \E p \in Procs : recordSpendUpdate(p) /\ HistoryConc
  \/ \E p \in Procs : recordSpendReturn(p) /\ HistoryConc
  \/ \E p \in Procs, a \in Amounts \ {0} :
       WithinFunded("job-1", a) /\ WithinAsked("global", a)
         /\ allocateCall(p, "global", "job-1", a) /\ HistoryConc
  \/ \E p \in Procs : allocateDeduct(p) /\ HistoryConc
  \/ \E p \in Procs : allocateReadChild(p) /\ HistoryConc
  \/ \E p \in Procs : allocateFund(p) /\ HistoryConc
  \/ \E p \in Procs : allocateReturn(p) /\ HistoryConc
  \/ \E p \in Procs : Resume(p) /\ HistoryConc

SpecConc == InitConc /\ [][NextConc]_vars

\* C4: the allocate calls out of the root that reported success never granted
\* more in all than the root's limit less what it had spent before them (0
\* here, with nothing recorded on the root), and once they have all returned
\* the root's spent has risen by exactly the sum granted.
C4_AllocateIndivisible ==
  recorded["global"] = 0 =>
    /\ granted["global"] <= budgets["global"].limit
    /\ Quiet => budgets["global"].spent = granted["global"]

\* C5: once every recordSpend call on a scope has returned, the scope's spent
\* is its spent before them (0 here, with nothing allocated out of the scope)
\* plus the sum of the amounts recorded.
C5_NoLostSpend ==
  \A s \in Scopes :
    (Quiet /\ Truthy(budgets[s]) /\ granted[s] = 0)
      => budgets[s].spent = recorded[s]

\* ------------------------------------- one root, funded once, call by call
\* setBudget has created the root with limit rootLimit; from then on one
\* caller allocates down the scopes and records spends, each recordSpend
\* using up the last successful canSpend, made for the same scope and amount.
HistoryForest ==
  /\ TrackUnchecked
  /\ TrackRecorded
  /\ TrackVouched
  /\ UNCHANGED <<pre, granted, rootLimit>>
  /\ UNCHANGED jobHistoryVars
  /\ UNCHANGED elsewhereVars

InitForest == InitConc

\* who funds whom
Funds == {<<"global", "job-1">>, <<"job-1", "agent-1">>, <<"global", "agent-1">>}

NextForest ==
  \/ \E s \in Scopes, e \in Amounts :
       Quiet /\ canSpendCall(Caller, s, e) /\ HistoryForest
  \/ \E p \in Procs : canSpendCheck(p) /\ HistoryForest
  \/ \E s \in Scopes, a \in Amounts :
       Quiet /\ <<s, a>> \in vouched /\ WithinSpent(s, a)
             /\ recordSpendCall(Caller, s, a) /\ HistoryForest
  \/ \E p \in Procs : recordSpendUpdate(p) /\ HistoryForest
  \/ \E p \in Procs : recordSpendReturn(p) /\ HistoryForest
  \/ \E e \in Funds, a \in Amounts :
       Quiet /\ WithinFunded(e[2], a) /\ allocateCall(Caller, e[1], e[2], a)
             /\ HistoryForest
  \/ \E p \in Procs : allocateDeduct(p) /\ HistoryForest
  \/ \E p \in Procs : allocateReadChild(p) /\ HistoryForest
  \/ \E p \in Procs : allocateFund(p) /\ HistoryForest
  \/ \E p \in Procs : allocateReturn(p) /\ HistoryForest
  \/ \E p \in Procs : Resume(p) /\ HistoryForest

SpecForest == InitForest /\ [][NextForest]_vars

\* the money recorded as spent in the root and in every scope funded from it
committed ==
  recorded["global"] + recorded["job-1"] + recorded["job-2"]
    + recorded["agent-1"]

\* C6 as stated: with every recordSpend preceded by a successful canSpend for
\* the same scope and amount, the total recorded as spent never exceeds the
\* limit the root was created with.
C6_CommittedWithinRoot == committed <= rootLimit

\* C6 (amended): the total recorded as spent never exceeds the root's limit
\* as long as every recordSpend was made while its scope could still cover
\* the amount (spent + amount <= limit at the recordSpend, as when nothing
\* was spent or allocated from the scope since the successful canSpend).
C6_CoveredCommittedWithinRoot == unchecked = {} => committed <= rootLimit

\* C6 witness: the whole root limit is recorded as spent, part of it in the
\* root and part in a scope two allocations away, every spend covered.
C6_Witness ==
  /\ Quiet
  /\ unchecked = {}
  /\ recorded["global"] > 0
  /\ recorded["agent-1"] > 0
  /\ recorded["job-1"] = 0
  /\ Truthy(budgets["job-1"])
  /\ budgets["job-1"].limit > 0
  /\ budgets["job-1"].spent = budgets["job-1"].limit
  /\ committed = rootLimit

\* ------------------------------------------------- the jobs, call by call
\* the store, the timing objects and the bus log when each call was made
TrackBefore ==
  before' = [p \in Procs |->
               IF pc'[p] = "idle" THEN << >>
               ELSE IF pc[p] = "idle"
                    THEN [jobs |-> jobs, timings |-> timings,
                          events |-> events, budgets |-> budgets]
                    ELSE before[p]]

\* a subscriber that calls store.getJob when an event is delivered to it
\* (emit calls its subscribers before it returns) is given the stored job
TrackRefetched ==
  refetched' =
    IF Len(events') > Len(events)
    THEN Append(refetched, jobs'[events'[Len(events')].data.jobId].status)
    ELSE refetched

HistoryJobs ==
  /\ TrackBefore
  /\ TrackRefetched
  /\ UNCHANGED historyVars
  /\ UNCHANGED elsewhereVars

\* a job that an earlier run left in the store in the given status
storedJob(status) ==
  [id |-> StoredId, status |-> status, context |-> << >>,
   permissions |-> defaultPermissions, history |-> << >>, obj |-> 1]

storedTiming(status) ==
  IF status = JOB_STATUS.CREATED THEN [created |-> 1]
  ELSE [created |-> 1, started |-> 1]

Statuses ==
  {JOB_STATUS.CREATED, JOB_STATUS.RUNNING, JOB_STATUS.PAUSED,
   JOB_STATUS.COMPLETED, JOB_STATUS.FAILED}

InitJobs ==
  /\ budgets = [s \in Scopes |-> NoBudget]
  /\ rootLimit = 0
  /\ IdleCallers
  /\ \E status \in Statuses :
       /\ jobs = [j \in JobIds |->
                    IF j = StoredId THEN storedJob(status) ELSE NoJob]
       /\ timings = [j \in JobIds |->
                       IF j = StoredId THEN storedTiming(status) ELSE << >>]
  /\ generated = 0
  /\ now = 1
  /\ events = << >>
  /\ refetched = << >>
  /\ before = [p \in Procs |-> << >>]

\* what createJob is called with: nothing, or a context and permissions
CreateInputs ==
  { <<Undefined, Undefined>>,
    <<[foo |-> "bar"], [maxSteps |-> 5]>> }

NextJobs ==
  \/ \E i \in CreateInputs :
       Quiet /\ createJobCall(Caller, i[1], i[2]) /\ HistoryJobs
  \/ \E p \in Procs : createJobReturn(p) /\ HistoryJobs
  \/ \E j \in JobIds :
       Quiet /\ Len(events) < MaxEvents /\ startJobCall(Caller, j)
             /\ HistoryJobs
  \/ \E p \in Procs : startJobCheck(p) /\ HistoryJobs
  \/ \E p \in Procs : startJobCanSpend(p) /\ HistoryJobs
  \/ \E p \in Procs : startJobUpdate(p) /\ HistoryJobs
  \/ \E p \in Procs : startJobEmit(p) /\ HistoryJobs
  \/ \E j \in JobIds :
       Quiet /\ Len(events) < MaxEvents /\ pauseJobCall(Caller, j)
             /\ HistoryJobs
  \/ \E p \in Procs : pauseJobUpdate(p) /\ HistoryJobs
  \/ \E p \in Procs : pauseJobEmit(p) /\ HistoryJobs
  \/ \E j \in JobIds :
       Quiet /\ nextStepCall(Caller, j, Undefined) /\ HistoryJobs
  \/ \E p \in Procs : nextStepCheck(p) /\ HistoryJobs
  \/ \E j \in JobIds, l \in {0, MaxLimit} :
       Quiet /\ setBudgetCall(Caller, j, l) /\ HistoryJobs
  \/ \E p \in Procs : setBudgetReturn(p) /\ HistoryJobs
  \/ \E j \in JobIds :
       Quiet /\ WithinSpent(j, MaxAmount)
             /\ recordSpendCall(Caller, j, MaxAmount) /\ HistoryJobs
  \/ \E p \in Procs : recordSpendUpdate(p) /\ HistoryJobs
  \/ \E p \in Procs : recordSpendReturn(p) /\ HistoryJobs
  \/ \E p \in Procs : Resume(p) /\ HistoryJobs
  \/ Quiet /\ Tick /\ HistoryJobs

SpecJobs == InitJobs /\ [][NextJobs]_vars

\* a call of op on a job the store held that has resolved and not yet resumed
ResolvedOn(p, op) ==
  /\ pc[p] = "resolved"
  /\ args[p].op = op
  /\ Truthy(before[p].jobs[args[p].jobId])

\* the status the job had when the call was made
statusBefore(p) == before[p].jobs[args[p].jobId].status

\* the call left the stored jobs, their timings and the bus log as they were
Untouched(p) ==
  /\ jobs = before[p].jobs
  /\ timings = before[p].timings
  /\ events = before[p].events

\* the status changes of created -> running -> (paused -> running)* ->
\* (completed | failed)
PathSteps ==
  { <<JOB_STATUS.CREATED, JOB_STATUS.RUNNING>>,
    <<JOB_STATUS.RUNNING, JOB_STATUS.PAUSED>>,
    <<JOB_STATUS.PAUSED, JOB_STATUS.RUNNING>>,
    <<JOB_STATUS.RUNNING, JOB_STATUS.COMPLETED>>,
    <<JOB_STATUS.RUNNING, JOB_STATUS.FAILED>> }

PathStep(j) ==
  IF ~Truthy(jobs[j])
  THEN ~Truthy(jobs'[j]) \/ jobs'[j].status = JOB_STATUS.CREATED
  ELSE /\ Truthy(jobs'[j])
       /\ \/ jobs'[j].status = jobs[j].status
          \/ <<jobs[j].status, jobs'[j].status>> \in PathSteps

\* C2: every change of a stored job's status made by createJob, startJob,
\* pauseJob or nextStep is a step of the path created -> running ->
\* (paused -> running)* -> (completed | failed): a job enters the store as
\* created, and no status changes in any other way (never created -> paused,
\* never out of completed or failed).
C2_StatusPath == [][\A j \in JobIds : PathStep(j)]_vars

\* C2 witness: a created job was started, paused and started again.
C2_Witness ==
  /\ Quiet
  /\ jobs[IdPool[1]] # NoJob
  /\ jobs[IdPool[1]].status = JOB_STATUS.RUNNING
  /\ events = <<[name |-> "job_started", data |-> [jobId |-> IdPool[1]]],
                [name |-> "job_paused", data |-> [jobId |-> IdPool[1]]],
                [name |-> "job_started", data |-> [jobId |-> IdPool[1]]]>>

\* C7: startJob succeeds only on a job that was created or paused; on a job
\* that was running, completed or failed it resolves to the invalid-transition
\* failure and leaves the stored jobs, their timings and the bus log as they
\* were.
C7_StartOnlyFromCreatedOrPaused ==
  \A p \in Procs :
    ResolvedOn(p, "startJob") =>
      /\ result[p].success =>
           statusBefore(p) \in {JOB_STATUS.CREATED, JOB_STATUS.PAUSED}
      /\ statusBefore(p) \in {JOB_STATUS.RUNNING, JOB_STATUS.COMPLETED,
                               JOB_STATUS.FAILED} =>
           /\ result[p] = [success |-> FALSE,
                            error |-> invalidTransitionError(statusBefore(p))]
           /\ Untouched(p)

\* C7 witness: startJob has resolved on a job that it had started before.
C7_Witness ==
  \E p \in Procs :
    /\ ResolvedOn(p, "startJob")
    /\ args[p].jobId = IdPool[1]
    /\ statusBefore(p) = JOB_STATUS.RUNNING
    /\ ~result[p].success

\* what the ledger's canSpend(jobId) answered for the call of p
ledgerAnswer(p) ==
  canSpendResult(getBudget(before[p].budgets, args[p].jobId), 0)

\* C8: when canSpend(jobId) fails for a job that was created or paused,
\* startJob resolves to the ledger's failure itself, and the stored jobs (the
\* status among them), their timings and the bus log are as they were.
C8_BudgetFailureVerbatim ==
  \A p \in Procs :
    ( /\ ResolvedOn(p, "startJob")
      /\ statusBefore(p) \in {JOB_STATUS.CREATED, JOB_STATUS.PAUSED}
      /\ ~ledgerAnswer(p).success ) =>
        /\ result[p] = ledgerAnswer(p)
        /\ Untouched(p)

\* C8 witness: a paused job whose scope was overspent meanwhile is refused
\* with the ledger's "Budget exceeded".
C8_Witness ==
  \E p \in Procs :
    /\ ResolvedOn(p, "startJob")
    /\ args[p].jobId = IdPool[1]
    /\ statusBefore(p) = JOB_STATUS.PAUSED
    /\ result[p] = [success |-> FALSE, error |-> "Budget exceeded"]

\* C9: pauseJob succeeds only on a job that was running; on a job in any
\* other status it fails and leaves the stored jobs, their timings and the
\* bus log as they were.
C9_PauseOnlyRunning ==
  \A p \in Procs :
    ResolvedOn(p, "pauseJob") =>
      /\ result[p].success => statusBefore(p) = JOB_STATUS.RUNNING
      /\ statusBefore(p) # JOB_STATUS.RUNNING =>
           /\ result[p] = [success |-> FALSE,
                            error |-> "Only running jobs can be paused"]
           /\ Untouched(p)

\* C9 witness: pauseJob has resolved on a job that it had paused before.
C9_Witness ==
  \E p \in Procs :
    /\ ResolvedOn(p, "pauseJob")
    /\ args[p].jobId = IdPool[1]
    /\ statusBefore(p) = JOB_STATUS.PAUSED
    /\ ~result[p].success

\* the event and the stored status that belong to a successful call
eventOf(op) == IF op = "startJob" THEN "job_started" ELSE "job_paused"
statusOf(name) ==
  IF name = "job_started" THEN JOB_STATUS.RUNNING ELSE JOB_STATUS.PAUSED

\* C10: a startJob or pauseJob that succeeded has added exactly one event to
\* the bus log, job_started or job_paused, with the job id as its whole
\* payload; and whoever fetched the job when an event was delivered found
\* the status the transition led to.
C10_OneEventAfterPersistence ==
  /\ \A p \in Procs :
       ( /\ pc[p] = "resolved"
         /\ args[p].op \in {"startJob", "pauseJob"}
         /\ result[p].success ) =>
           events = Append(before[p].events,
                           [name |-> eventOf(args[p].op),
                            data |-> [jobId |-> args[p].jobId]])
  /\ Len(refetched) = Len(events)
  /\ \A i \in 1..Len(events) : refetched[i] = statusOf(events[i].name)

\* C10 witness: a job was started and then paused, with one event each.
C10_Witness ==
  \E p \in Procs :
    /\ pc[p] = "resolved"
    /\ args[p].op = "pauseJob"
    /\ args[p].jobId = IdPool[1]
    /\ result[p].success
    /\ Len(events) = 2
    /\ refetched = <<JOB_STATUS.RUNNING, JOB_STATUS.PAUSED>>

\* the job has a start time
hasStarted(t) == "started" \in DOMAIN t

\* C13: timing.started is written at most once per job: a start time that is
\* there stays as it is through every later step (a resume after a pause
\* among them), and the step that first makes a job without one running
\* writes the time of that step.
C13_StartedOnce ==
  [][\A j \in JobIds :
       /\ hasStarted(timings[j]) =>
            /\ hasStarted(timings'[j])
            /\ timings'[j].started = timings[j].started
       /\ ( /\ ~hasStarted(timings[j])
            /\ Truthy(jobs[j])
            /\ jobs'[j].status = JOB_STATUS.RUNNING
            /\ jobs[j].status # JOB_STATUS.RUNNING ) =>
            /\ hasStarted(timings'[j])
            /\ timings'[j].started = now]_vars

\* C13 witness: a job started at time 1 was paused and resumed at a later
\* time, and its start time is still 1.
C13_Witness ==
  /\ Quiet
  /\ now > 1
  /\ Truthy(jobs[IdPool[1]])
  /\ jobs[IdPool[1]].status = JOB_STATUS.RUNNING
  /\ hasStarted(timings[IdPool[1]])
  /\ timings[IdPool[1]].started = 1
  /\ Len(events) = 3
  /\ events[3] = [name |-> "job_started", data |-> [jobId |-> IdPool[1]]]
  /\ refetched[3] = JOB_STATUS.RUNNING
  /\ \A i \in 1..3 : events[i].data.jobId = IdPool[1]

\* -------------------------------------------------------- model gateway
PROVIDER == [OPENAI |-> "openai", ANTHROPIC |-> "anthropic"]
CAPABILITY == [TOOLS |-> "tools", VISION |-> "vision", JSON_MODE |-> "json_mode"]

\* config.models, as the tests configure it; the rates are in millionths of
\* a dollar per 1000 tokens
ModelIds == {"gpt-4", "claude-3", "basic-model", "small-model"}
configModels ==
  [m \in ModelIds |->
     IF m = "gpt-4"
     THEN [id |-> m, provider |-> PROVIDER.OPENAI,
           capabilities |-> {CAPABILITY.TOOLS, CAPABILITY.JSON_MODE},
           cost |-> [input1k |-> 30000, output1k |-> 60000]]
     ELSE IF m = "claude-3"
     THEN [id |-> m, provider |-> PROVIDER.ANTHROPIC,
           capabilities |-> {CAPABILITY.TOOLS},
           cost |-> [input1k |-> 15000, output1k |-> 75000]]
     ELSE IF m = "small-model"
     THEN [id |-> m, provider |-> PROVIDER.OPENAI,
           capabilities |-> {CAPABILITY.TOOLS},
           cost |-> [input1k |-> 200, output1k |-> 600]]
     ELSE [id |-> m, provider |-> "local", capabilities |-> {},
           cost |-> [input1k |-> 0, output1k |-> 0]]]

\* config.models[modelId]
modelConfOf(modelId) ==
  IF modelId \in DOMAIN configModels THEN configModels[modelId] ELSE Undefined

\* a gateway that was handed a queue for every provider
providerQueues_All == Providers

\* the providers that providerQueues holds a queue for
providerQueues == {PROVIDER.OPENAI}

\* `request.tools`, `request.taskType`: the field is there
Has(r, field) == field \in DOMAIN r

\* no job id is passed
NoJobId == ""

\* a guard that lets every request through
lacksTools_Never(modelConf, request) == FALSE

\* request.tools && !modelConf.capabilities.includes(CAPABILITY.TOOLS)
lacksTools(modelConf, request) ==
  Has(request, "tools") /\ CAPABILITY.TOOLS \notin modelConf.capabilities

validateCapabilities(modelId, request) ==
  LET modelConf == modelConfOf(modelId)
  IN IF ~Truthy(modelConf) THEN [success |-> FALSE, error |-> "Unknown model"]
     ELSE IF lacksTools(modelConf, request)
          THEN [success |-> FALSE, error |-> "Model does not support tools"]
          ELSE [success |-> TRUE]

\* a cost cut off after the sixth decimal
toFixed6_Floor(thousandths) == thousandths \div 1000

\* Number(x.toFixed(6)) of an amount in thousandths of a millionth of a dollar
toFixed6(thousandths) == (thousandths + 500) \div 1000

calculateCost(modelId, usage) ==
  LET modelConf == modelConfOf(modelId)
  IN IF ~Truthy(modelConf) \/ ~Has(modelConf, "cost") \/ ~Truthy(usage) THEN 0
     ELSE toFixed6(usage.promptTokens * modelConf.cost.input1k
                     + usage.completionTokens * modelConf.cost.output1k)

\* `No queue for provider: ${modelConf.provider}`
noQueueError(provider) ==
  [anthropic |-> "No queue for provider: anthropic",
   local |-> "No queue for provider: local",
   openai |-> "No queue for provider: openai"][provider]

\* what is thrown or what a promise is rejected with: an Error with a
\* message, an Error without one, or null / undefined
NullThrown == [null |-> TRUE]
NothingThrown == [nothing |-> TRUE]
Thrown == {[message |-> "API Timeout"], [message |-> ""], NullThrown}

\* `err.message` of a caught value: of null and undefined it is a TypeError
messageFaults(err) == err = NullThrown

typeError == "TypeError: Cannot read properties of null (reading 'message')"

\* `err.message || default`
messageOr(err, default) == IF err.message = "" THEN default ELSE err.message

\* what a registered function does when it is called: it returns a string, it
\* returns an object, it returns a value JSON.stringify has no text for (a
\* BigInt, an object that contains itself), it throws an Error, it throws
\* null, or it returns a string for the input it was written for and throws
\* an Error for any other
Implementations ==
  {"string", "object", "unserializable", "throws", "throwsNull", "partial"}

\* the inputs functions are called with: request.messages, payload.input
KnownInput == <<"hi">>
Inputs == {KnownInput, <<"other">>}

\* optimizedFn(request.messages), shadowFnRecord.implementation(input)
applyFn(implementation, input) ==
  IF implementation = "throws" \/ (implementation = "partial"
                                    /\ input # KnownInput)
  THEN [threw |-> TRUE, error |-> [message |-> "boom"]]
  ELSE IF implementation = "throwsNull"
  THEN [threw |-> TRUE, error |-> NullThrown]
  ELSE [threw |-> FALSE,
        type |-> IF implementation = "partial" THEN "string"
                 ELSE implementation]

\* typeof result === "string" ? result : JSON.stringify(result)
contentOf(out) ==
  IF out.type = "string" THEN [threw |-> FALSE, text |-> "DET_RESULT"]
  ELSE IF out.type = "object" THEN [threw |-> FALSE, text |-> "{\"n\":1}"]
  ELSE [threw |-> TRUE,
        error |-> [message |-> "Do not know how to serialize a BigInt"]]

\* pipeline.getOptimizedFunction: the implementation, or null
getOptimizedFunction(taskType) ==
  LET record == activeFunctions[taskType]
  IN IF Truthy(record) THEN record.implementation ELSE "null"

\* the response of the deterministic bypass
bypassResponse(text, latencyMs) ==
  [success |-> TRUE,
   data |-> [content |-> text],
   meta |-> [modelId |-> "deterministic", provider |-> "internal",
             latencyMs |-> latencyMs,
             usage |-> [promptTokens |-> 0, completionTokens |-> 0,
                        totalTokens |-> 0, cost |-> 0]]]

\* the bypass's catch: logger.error(`... ${error.message} ...`) and on to
\* the validation, unless reading the message throws out of the catch
bypassCatch(error) ==
  IF messageFaults(error) THEN [fault |-> typeError] ELSE Undefined

\* step 0 of call: the response of the bypass; undefined when the request
\* has no taskType, no function is active for it, or the try block threw
\* and the catch logged it; a fault when the catch threw
tryBypass(request) ==
  IF ~Has(request, "taskType") THEN Undefined
  ELSE LET optimizedFn == getOptimizedFunction(request.taskType)
       IN IF optimizedFn = "null" THEN Undefined
          ELSE LET out == applyFn(optimizedFn, request.messages)
               IN IF out.threw THEN bypassCatch(out.error)
                  ELSE IF contentOf(out).threw
                  THEN bypassCatch(contentOf(out).error)
                  ELSE bypassResponse(contentOf(out).text, 0)

\* what the provider's client answers in the tests
rawResponse ==
  [content |-> "Hello world",
   usage |-> [promptTokens |-> 10, completionTokens |-> 20,
              totalTokens |-> 30]]

\* the usage a provider reports: the tests', or one token each way
Usages ==
  { rawResponse.usage,
    [promptTokens |-> 1, completionTokens |-> 1, totalTokens |-> 2] }

\* the queue runs the call and the provider answers, the provider's generate
\* throws, or the queue's enqueue throws before it runs the call
ProviderOutcomes == {"ok", "generateThrows", "enqueueThrows"}

\* call: up to `await queue.enqueue(...)`
callStart(p, request, jobId) ==
  /\ pc[p] = "idle"
  /\ args' = [args EXCEPT ![p] = [op |-> "call", request |-> request,
                                  jobId |-> jobId]]
  /\ LET bypass == tryBypass(request)
         validation == validateCapabilities(request.modelId, request)
     IN IF Truthy(bypass) /\ Has(bypass, "fault")
        THEN /\ Reject(p, bypass.fault)
             /\ UNCHANGED <<loc, queues>>
        ELSE IF Truthy(bypass)
        THEN /\ Resolve(p, bypass)
             /\ UNCHANGED <<loc, queues>>
        ELSE IF ~validation.success
        THEN /\ Resolve(p, [success |-> FALSE, error |-> validation.error])
             /\ UNCHANGED <<loc, queues>>
        ELSE LET modelConf == modelConfOf(request.modelId)
             IN IF modelConf.provider \notin providerQueues
                THEN /\ Resolve(p, [success |-> FALSE,
                                    error |-> noQueueError(modelConf.provider)])
                     /\ UNCHANGED <<loc, queues>>
                ELSE \E outcome \in ProviderOutcomes,
                        thrown \in Thrown \cup {NothingThrown},
                        usage \in Usages :
                       /\ (outcome = "ok") = (thrown = NothingThrown)
                       /\ outcome # "ok" => usage = rawResponse.usage
                       /\ queues' =
                            [queues EXCEPT
                               ![modelConf.provider] =
                                 [enqueued |-> @.enqueued + 1,
                                  generated |->
                                    IF outcome = "enqueueThrows"
                                    THEN @.generated
                                    ELSE @.generated + 1]]
                       /\ loc' = [loc EXCEPT ![p] =
                                    [startTime |-> now, outcome |-> outcome,
                                     thrown |-> thrown, usage |-> usage,
                                     modelConf |-> modelConf]]
                       /\ Suspend(p, "call:provider")
                       /\ UNCHANGED result
  /\ UNCHANGED <<budgets, jobVars, monitor, workLog, pipelineVars>>

\* the result of a call the provider answered
callSuccess(request, modelConf, latencyMs, usage) ==
  [success |-> TRUE,
   data |-> [content |-> rawResponse.content],
   meta |-> [modelId |-> request.modelId, provider |-> modelConf.provider,
             latencyMs |-> latencyMs,
             usage |-> Spread(usage,
                              [cost |-> calculateCost(request.modelId,
                                                      usage)])]]

\* call: the provider has answered or thrown; cost, metrics, and
\* `await jobLogger.logWorkDone(...)` when a job id was passed
callRespond(p) ==
  /\ pc[p] = "call:provider"
  /\ LET request == args[p].request
         modelConf == loc[p].modelConf
         latencyMs == now - loc[p].startTime
         response == callSuccess(request, modelConf, latencyMs, loc[p].usage)
     IN IF loc[p].outcome = "ok"
        THEN /\ monitor' = [monitor EXCEPT
                              !.latencies = @ + 1,
                              !.throughputs =
                                IF loc[p].usage.totalTokens # 0
                                THEN @ + 1 ELSE @]
             /\ IF args[p].jobId # NoJobId
                THEN /\ workLog' =
                          Append(workLog,
                                 [jobId |-> args[p].jobId,
                                  cost |-> response.meta.usage.cost,
                                  tokens |-> response.meta.usage.totalTokens,
                                  model |-> request.modelId])
                     /\ loc' = [loc EXCEPT ![p] =
                                  Spread(loc[p], [response |-> response])]
                     /\ Suspend(p, "call:return")
                     /\ UNCHANGED result
                ELSE /\ Resolve(p, response)
                     /\ UNCHANGED <<loc, workLog>>
        ELSE IF messageFaults(loc[p].thrown)
        THEN \* the catch's logger.error reads err.message and throws
             /\ Reject(p, typeError)
             /\ UNCHANGED <<loc, workLog, monitor>>
        ELSE /\ monitor' = [monitor EXCEPT !.errors = @ + 1]
             /\ Resolve(p, [success |-> FALSE,
                             error |-> messageOr(
                                         loc[p].thrown,
                                         "Unknown error during model call")])
             /\ UNCHANGED <<loc, workLog>>
  /\ UNCHANGED <<budgets, args, jobVars, queues, pipelineVars>>

\* call: the return after logWorkDone
callReturn(p) ==
  /\ pc[p] = "call:return"
  /\ Resolve(p, loc[p].response)
  /\ UNCHANGED <<budgets, args, loc, jobVars, gatewayVars, pipelineVars>>

\* confidence scores are counted in hundred-thousandths: 1.0
ScoreUnit == 100000

RECURSIVE gcd(_, _)
gcd(a, b) == IF b = 0 THEN a ELSE gcd(b, a % b)

\* the number num / den, in lowest terms
ratio(num, den) ==
  [num |-> num \div gcd(num, den), den |-> den \div gcd(num, den)]

\* mutant: registering a shadow function withdraws the active one
registerFunction_Exclusive(taskType, implementation, active) ==
  LET deterministicFn ==
        [id |-> <<"fn", now, taskType>>, taskType |-> taskType,
         testCases |-> << >>,
         confidenceScore |-> IF active THEN ScoreUnit ELSE 0,
         implementation |-> implementation]
      status == IF active THEN "optimized" ELSE "shadow_testing"
  IN /\ IF active
        THEN /\ activeFunctions' =
                  [activeFunctions EXCEPT ![taskType] = deterministicFn]
             /\ UNCHANGED shadowFunctions
        ELSE /\ shadowFunctions' =
                  [shadowFunctions EXCEPT ![taskType] = deterministicFn]
             /\ activeFunctions' =
                  [activeFunctions EXCEPT ![taskType] = Undefined]
     /\ candidates' =
          [candidates EXCEPT ![taskType] =
             IF ~Truthy(@)
             THEN [taskType |-> taskType, frequency |-> 0,
                   avgCost |-> ratio(0, 1), status |-> status]
             ELSE [@ EXCEPT !.status = status]]
     /\ UNCHANGED <<ledgerVars, jobVars, gatewayVars, taskHistory>>

\* pipeline.registerFunction(taskType, fn, active)
registerFunction(taskType, implementation, active) ==
  LET deterministicFn ==
        [id |-> <<"fn", now, taskType>>, taskType |-> taskType,
         testCases |-> << >>,
         confidenceScore |-> IF active THEN ScoreUnit ELSE 0,
         implementation |-> implementation]
      status == IF active THEN "optimized" ELSE "shadow_testing"
  IN /\ IF active
        THEN /\ activeFunctions' =
                  [activeFunctions EXCEPT ![taskType] = deterministicFn]
             /\ UNCHANGED shadowFunctions
        ELSE /\ shadowFunctions' =
                  [shadowFunctions EXCEPT ![taskType] = deterministicFn]
             /\ UNCHANGED activeFunctions
     /\ candidates' =
          [candidates EXCEPT ![taskType] =
             IF ~Truthy(@)
             THEN [taskType |-> taskType, frequency |-> 0,
                   avgCost |-> ratio(0, 1), status |-> status]
             ELSE [@ EXCEPT !.status = status]]
     /\ UNCHANGED <<ledgerVars, jobVars, gatewayVars, taskHistory>>

\* the pipeline's three maps after promoteToActive(taskType)
promoteToActive_KeepShadow(pipeline, taskType) ==
  LET shadowFn == pipeline.shadowFunctions[taskType]
  IN IF Truthy(shadowFn)
     THEN [pipeline EXCEPT
             !.activeFunctions[taskType] = shadowFn,
             !.candidates[taskType] =
                IF Truthy(@) THEN [@ EXCEPT !.status = "optimized"] ELSE @]
     ELSE pipeline

\* the pipeline's three maps after promoteToActive(taskType)
promoteToActive(pipeline, taskType) ==
  LET shadowFn == pipeline.shadowFunctions[taskType]
  IN IF Truthy(shadowFn)
     THEN [pipeline EXCEPT
             !.activeFunctions[taskType] = shadowFn,
             !.shadowFunctions[taskType] = Undefined,
             !.candidates[taskType] =
                IF Truthy(@) THEN [@ EXCEPT !.status = "optimized"] ELSE @]
     ELSE pipeline

\* the maps promoteToActive reads and writes
thePipeline ==
  [candidates |-> candidates, activeFunctions |-> activeFunctions,
   shadowFunctions |-> shadowFunctions]

\* the maps become those of pipeline
becomes(pipeline) ==
  /\ candidates' = pipeline.candidates
  /\ activeFunctions' = pipeline.activeFunctions
  /\ shadowFunctions' = pipeline.shadowFunctions

\* pipeline.promoteToActive(taskType), called from outside
promote(taskType) ==
  /\ becomes(promoteToActive(thePipeline, taskType))
  /\ UNCHANGED <<ledgerVars, jobVars, gatewayVars, taskHistory>>

\* record.confidenceScore = 0.995, as the promotion test sets it
presetConfidence(taskType, score) ==
  /\ Truthy(shadowFunctions[taskType])
  /\ shadowFunctions' =
       [shadowFunctions EXCEPT ![taskType].confidenceScore = score]
  /\ UNCHANGED <<ledgerVars, jobVars, gatewayVars, candidates,
                 activeFunctions, taskHistory>>

\* the outputs a completion event reports: the string or the object the
\* functions return, or some other value
Outputs == {"string", "object", "different"}

\* JSON.stringify(value)
stringify(type) ==
  IF type = "string" THEN [threw |-> FALSE, text |-> "\"DET_RESULT\""]
  ELSE IF type = "object" THEN [threw |-> FALSE, text |-> "{\"n\":1}"]
  ELSE IF type = "different" THEN [threw |-> FALSE, text |-> "\"LLM text\""]
  ELSE [threw |-> TRUE,
        error |-> [message |-> "Do not know how to serialize a BigInt"]]

\* history.length > 200
HistoryWindow == 200

\* history.push({ input, output }); if (history.length > 200) history.shift()
pushHistory(history, input, output) ==
  LET pushed == Append(history, [input |-> input, output |-> output])
  IN IF Len(pushed) > HistoryWindow THEN Tail(pushed) ELSE pushed

\* mutant: the average of the old average and the new cost
countCandidate_Halved(candidate, cost) ==
  [candidate EXCEPT
     !.frequency = @ + 1,
     !.avgCost = ratio(candidate.avgCost.num + cost * candidate.avgCost.den,
                       candidate.avgCost.den * 2)]

\* candidate.frequency++ and the moving average of cost
countCandidate(candidate, cost) ==
  LET frequency == candidate.frequency + 1
      avg == candidate.avgCost
  IN [candidate EXCEPT
        !.frequency = frequency,
        !.avgCost = ratio(avg.num * (frequency - 1) + cost * avg.den,
                          avg.den * frequency)]

\* (confidenceScore || 0) * (1 - alpha) + (match ? 1 : 0) * alpha
blend(score, match) ==
  (score * 95) \div 100 + (IF match THEN (5 * ScoreUnit) \div 100 ELSE 0)

\* confidenceScore *= 0.8
penalize(score) == (score * 8) \div 10

\* mutant: the threshold is 0.9
aboveThreshold_Low(score) == score * 100 > 90 * ScoreUnit

\* confidenceScore > 0.99
aboveThreshold(score) == score * 100 > 99 * ScoreUnit

\* the try block of _runShadowTest up to the comparison: what was raised,
\* or whether JSON.stringify gave the same text for both outputs
compareOutputs(shadowFnRecord, input, expectedOutput) ==
  LET out == applyFn(shadowFnRecord.implementation, input)
  IN IF out.threw THEN [raised |-> TRUE, error |-> out.error]
     ELSE LET actual == stringify(out.type)
          IN IF actual.threw THEN [raised |-> TRUE, error |-> actual.error]
             ELSE [raised |-> FALSE,
                   match |-> actual.text = stringify(expectedOutput).text]

\* the pipeline's maps after _runShadowTest; the catch block reads
\* error.message before it penalizes, which raises when null was thrown
runShadowTest(pipeline, taskType, input, expectedOutput) ==
  LET shadowFnRecord == pipeline.shadowFunctions[taskType]
      test == compareOutputs(shadowFnRecord, input, expectedOutput)
  IN IF test.raised
     THEN IF messageFaults(test.error)
          THEN pipeline
          ELSE [pipeline EXCEPT
                  !.shadowFunctions[taskType].confidenceScore = penalize(@)]
     ELSE LET score == blend(shadowFnRecord.confidenceScore, test.match)
              scored == [pipeline EXCEPT
                  !.shadowFunctions[taskType].confidenceScore = score]
          IN IF aboveThreshold(score)
             THEN promoteToActive(scored, taskType)
             ELSE scored

\* candidate.status === "analyzing" && candidate.frequency >=
\* this.optimizationThreshold: the handler writes a log line and nothing else
reachedThreshold(candidate) ==
  /\ candidate.status = "analyzing"
  /\ candidate.frequency >= optimizationThreshold

\* _handleJobCompleted(event), as the JOB_COMPLETED listener runs it: no
\* await, so the whole handler is one step
handleJobCompleted(payload) ==
  /\ Has(payload, "taskType")
  /\ LET taskType == payload.taskType
         cost == IF Has(payload, "cost") THEN payload.cost ELSE 0
         candidate ==
           IF Truthy(candidates[taskType]) THEN candidates[taskType]
           ELSE [taskType |-> taskType, frequency |-> 0,
                 avgCost |-> ratio(0, 1), status |-> "analyzing"]
         counted ==
           [thePipeline EXCEPT
              !.candidates[taskType] = countCandidate(candidate, cost)]
     IN /\ taskHistory' =
             [taskHistory EXCEPT
                ![taskType] = pushHistory(@, payload.input, payload.output)]
        /\ becomes(IF Truthy(shadowFunctions[taskType])
                   THEN runShadowTest(counted, taskType, payload.input,
                                      payload.output)
                   ELSE counted)
  /\ UNCHANGED <<ledgerVars, jobVars, gatewayVars>>

\* _handleJobCompleted(event) for a payload with no taskType: return
ignoreJobCompleted(payload) ==
  /\ ~Has(payload, "taskType")
  /\ UNCHANGED <<ledgerVars, jobVars, gatewayVars, pipelineVars>>

\* ------------------------------------------ the gateway, call by call
HistoryGateway ==
  UNCHANGED <<historyVars, jobHistoryVars, busVars, processed, breaker, observed,
              laterVars>>

InitGateway == InitLedger

\* the requests: a model of the configuration or an unknown one, with or
\* without tools, with or without a task type
Requests ==
  { Spread(Spread([modelId |-> m, messages |-> <<"hi">>], tools), task) :
      m \in ModelIds \cup {"non-existent"},
      tools \in {<< >>, [tools |-> <<"test">>]},
      task \in {<< >>} \cup {[taskType |-> t] : t \in TaskTypes} }
  \cup
  { [modelId |-> m, messages |-> <<"hi">>, schema |-> "object"] :
      m \in ModelIds }
  \cup
  { [modelId |-> "gpt-4", messages |-> i, taskType |-> t] :
      i \in Inputs, t \in TaskTypes }

NextGateway ==
  \/ \E request \in Requests, jobId \in {NoJobId, IdPool[1]} :
       /\ Quiet
       /\ queues[PROVIDER.OPENAI].enqueued < MaxCalls
       /\ callStart(Caller, request, jobId)
       /\ HistoryGateway
  \/ \E p \in Procs : callRespond(p) /\ HistoryGateway
  \/ \E p \in Procs : callReturn(p) /\ HistoryGateway
  \/ \E implementation \in Implementations :
       /\ Quiet
       /\ registerFunction("bypass_task", implementation, TRUE)
       /\ HistoryGateway
  \/ Quiet /\ registerFunction("summarize", "string", FALSE) /\ HistoryGateway
  \/ \E p \in Procs : Resume(p) /\ UNCHANGED <<gatewayVars, pipelineVars>>
                                /\ HistoryGateway
  \/ Quiet /\ Tick /\ UNCHANGED <<gatewayVars, pipelineVars>> /\ HistoryGateway

SpecGateway == InitGateway /\ [][NextGateway]_vars

\* p makes a gateway call in this step
CallsGateway(p) == Calls(p, "call")

\* the request asks for tools of a configured model that has none
ToolsOfToolless(request) ==
  /\ Has(request, "tools")
  /\ request.modelId \in ModelIds
  /\ CAPABILITY.TOOLS \notin configModels[request.modelId].capabilities

unsupportedTools == [success |-> FALSE, error |-> "Model does not support tools"]

\* a function is active for the request's task type that returns a value
\* with a text
Substituted(request) ==
  /\ Has(request, "taskType")
  /\ Truthy(activeFunctions[request.taskType])
  /\ \/ activeFunctions[request.taskType].implementation
            \in {"string", "object"}
     \/ /\ activeFunctions[request.taskType].implementation = "partial"
        /\ request.messages = KnownInput

\* a function is active for the request's task type that throws a value the
\* bypass's catch cannot read a message of
BypassFaults(request) ==
  /\ Has(request, "taskType")
  /\ Truthy(activeFunctions[request.taskType])
  /\ activeFunctions[request.taskType].implementation = "throwsNull"

\* C19 as stated: a call whose request carries tools for a model without the
\* tools capability resolves to the unsupported-capability failure, and
\* neither enqueue nor generate of any provider queue is called for it.
C19_ToolsGuard ==
  [][\A p \in Procs :
       (CallsGateway(p) /\ ToolsOfToolless(args'[p].request)) =>
         /\ pc'[p] = "resolved"
         /\ result'[p] = unsupportedTools
         /\ queues' = queues]_vars

\* C19 (amended): a call whose request carries tools for a model without the
\* tools capability never reaches a provider queue (neither enqueue nor
\* generate is called); it resolves to the unsupported-capability failure
\* unless the request names a task type with an active deterministic
\* function: one that returns a value with a text answers first and the call
\* succeeds without any capability check, and one that throws null makes the
\* call reject; one that throws an Error leaves the failure as it is.
C19_ToolsGuardAfterBypass ==
  [][\A p \in Procs :
       (CallsGateway(p) /\ ToolsOfToolless(args'[p].request)) =>
         /\ queues' = queues
         /\ IF Substituted(args'[p].request)
            THEN /\ pc'[p] = "resolved"
                 /\ result'[p].success
                 /\ result'[p].meta.provider = "internal"
            ELSE IF BypassFaults(args'[p].request)
            THEN pc'[p] = "rejected"
            ELSE /\ pc'[p] = "resolved"
                 /\ result'[p] = unsupportedTools]_vars

\* C19 witness: after a call that reached the provider, a call with tools for
\* the model without capabilities was refused, although a function is active
\* for another task type.
C19_Witness ==
  \E p \in Procs :
    /\ pc[p] = "resolved"
    /\ args[p].op = "call"
    /\ ToolsOfToolless(args[p].request)
    /\ result[p] = unsupportedTools
    /\ Truthy(activeFunctions["bypass_task"])
    /\ queues[PROVIDER.OPENAI].generated > 0

\* the response the bypass gives: the function's output as content, no
\* usage, no cost, the deterministic / internal marker
Deterministic(r) ==
  /\ r.success
  /\ r.meta.modelId = "deterministic"
  /\ r.meta.provider = "internal"
  /\ r.meta.usage = [promptTokens |-> 0, completionTokens |-> 0,
                     totalTokens |-> 0, cost |-> 0]

TrackProcessed ==
  processed' =
    [j \in JobIds |->
       IF \E p \in Procs : /\ Steps(p, "nextStep:check", "resolved")
                           /\ args[p].jobId = j
                           /\ result'[p].success
       THEN processed[j] + 1
       ELSE processed[j]]

HistorySteps ==
  /\ TrackBefore
  /\ TrackRefetched
  /\ TrackProcessed
  /\ UNCHANGED <<historyVars, busVars, breaker, observed, laterVars>>

\* the caller of the orchestrator and the agent that calls the gateway
Agent == "B"
StepsJob == IdPool[1]

\* a job is created with a step cap
StepsPermissions == [maxSteps |-> MaxSteps]

\* the request the agent makes on behalf of the job
StepsRequest == [modelId |-> "gpt-4", messages |-> <<"hi">>]

InitSteps == InitLedger

\* the orchestrator's calls are made one after another by one caller while
\* the agent's call of the gateway is made and answered at any time
NextSteps ==
  \/ /\ pc[Agent] \in {"idle", "call:provider"}
     /\ \/ createJobCall(Caller, Undefined, StepsPermissions)
        \/ createJobReturn(Caller)
        \/ setBudgetCall(Caller, StepsJob, MaxLimit)
        \/ setBudgetReturn(Caller)
        \/ Len(events) < MaxEvents /\ startJobCall(Caller, StepsJob)
        \/ startJobCheck(Caller)
        \/ startJobCanSpend(Caller)
        \/ startJobUpdate(Caller)
        \/ startJobEmit(Caller)
        \/ Len(events) < MaxEvents /\ pauseJobCall(Caller, StepsJob)
        \/ pauseJobUpdate(Caller)
        \/ pauseJobEmit(Caller)
        \/ /\ processed[StepsJob] <= MaxSteps
           /\ nextStepCall(Caller, StepsJob, Undefined)
        \/ nextStepCheck(Caller)
        \/ Resume(Caller)
     /\ UNCHANGED <<gatewayVars, pipelineVars>>
     /\ HistorySteps
  \/ /\ queues[PROVIDER.OPENAI].enqueued < MaxCalls
     /\ Truthy(jobs[StepsJob])
     /\ callStart(Agent, StepsRequest, StepsJob)
     /\ HistorySteps
  \/ callRespond(Agent) /\ HistorySteps
  \/ callReturn(Agent) /\ HistorySteps
  \/ Resume(Agent) /\ UNCHANGED <<gatewayVars, pipelineVars>> /\ HistorySteps
  \/ Tick /\ UNCHANGED <<gatewayVars, pipelineVars>> /\ HistorySteps

SpecSteps == InitSteps /\ [][NextSteps]_vars

\* the job the call was made for is paused
PausedNow(j) == Truthy(jobs[j]) /\ jobs[j].status = JOB_STATUS.PAUSED

\* C11: pausing only prevents new steps. A nextStep called on a job that is
\* paused (a pauseJob succeeded and no startJob has succeeded since) resolves
\* to the failure "Job not running" and leaves the stored jobs, their timings
\* and the bus log as they were; no step of pauseJob changes anything of a
\* gateway call in flight or of the gateway, and a call in flight for a job
\* that was paused meanwhile, once the provider has answered, still succeeds.
C11_PauseStopsOnlyNewSteps ==
  [][ /\ \A p \in Procs :
           ( /\ Steps(p, "nextStep:check", "resolved")
             /\ Truthy(before[p].jobs[args[p].jobId])
             /\ statusBefore(p) = JOB_STATUS.PAUSED )
           => /\ result'[p] = [success |-> FALSE, error |-> "Job not running"]
              /\ jobs' = before[p].jobs
              /\ timings' = before[p].timings
              /\ events' = before[p].events
              /\ UNCHANGED <<budgets, gatewayVars>>
      /\ \A p \in Procs : \A q \in Procs \ {p} :
           ( /\ \/ Calls(p, "pauseJob")
                \/ pc[p] \in {"pauseJob:update", "pauseJob:emit"}
                   /\ pc'[p] # pc[p]
             /\ pc[q] \in {"call:provider", "call:return"} )
           => /\ pc'[q] = pc[q] /\ args'[q] = args[q]
              /\ loc'[q] = loc[q] /\ result'[q] = result[q]
              /\ UNCHANGED gatewayVars
      /\ \A q \in Procs :
           ( /\ pc[q] = "call:provider" /\ pc'[q] # pc[q]
             /\ loc[q].outcome = "ok"
             /\ PausedNow(args[q].jobId) )
           => IF pc'[q] = "call:return"
              THEN loc'[q].response.success
              ELSE result'[q].success
    ]_vars

\* a call made for the running job was in flight while the job was paused and
\* a nextStep on it was rejected, and has resolved to a success
C11_Witness ==
  /\ ResolvedOn(Caller, "nextStep")
  /\ statusBefore(Caller) = JOB_STATUS.PAUSED
  /\ ~result[Caller].success
  /\ pc[Agent] = "resolved"
  /\ args[Agent].op = "call"
  /\ before[Agent].jobs[StepsJob].status = JOB_STATUS.RUNNING
  /\ PausedNow(StepsJob)
  /\ result[Agent].success

\* C12: nextStep enforces the step cap. A nextStep on a running job that has
\* processed permissions.maxSteps steps is rejected.
C12_StepCap ==
  [][ \A p \in Procs :
        ( /\ Steps(p, "nextStep:check", "resolved")
          /\ Truthy(loc[p].job)
          /\ loc[p].job.status = JOB_STATUS.RUNNING
          /\ processed[args[p].jobId] >= loc[p].job.permissions.maxSteps )
        => ~result'[p].success
    ]_vars
\* ------------------------------------------------------------ the event bus
\* the types events are emitted with; "*" is the emitter's name for the
\* listeners of onAny
Types == {"t", "u"}
ANY == "*"

\* a span id no event has: parentContext.spanId of an absent context
NoSpan == 0

\* `parentContext = {}`
NoContext == [traceId |-> NoSpan, spanId |-> NoSpan]

\* an event that starts a trace of its own whatever the context
createEvent_NewTrace(type, parentContext, spanId) ==
  [id |-> spanId, type |-> type,
   trace |-> [traceId |-> spanId, spanId |-> spanId,
              parentId |-> parentContext.spanId]]

\* createEvent, spanId being the uuid it draws
createEvent(type, parentContext, spanId) ==
  [id |-> spanId, type |-> type,
   trace |-> [traceId |-> IF parentContext.traceId # NoSpan
                          THEN parentContext.traceId ELSE spanId,
              spanId |-> spanId,
              parentId |-> parentContext.spanId]]

\* uuidv4(): an id no event has had
freshSpan == Len(emitted) + 1

\* what a handler does with an event: it returns, it throws, it returns a
\* promise that rejects, or (child # "") it emits a child event of that type
\* in the event's trace when the event has no parent, and returns
Returns == "return"
Throws == "throw"
Rejects == "reject"
Emits == "emit"

\* emitter.on(type, listener): the listener joins the end of the type's list
addListener(hs, type, wrapped, does, child) ==
  Append(hs, [id |-> Len(hs) + 1, type |-> type, wrapped |-> wrapped,
              does |-> does, child |-> child, live |-> TRUE])

\* emitter.off(type, listener)
removeListener(hs, id) == [hs EXCEPT ![id].live = FALSE]

RECURSIVE listenersOf(_, _)
\* the copy of a type's listener list that emitter.emit walks through
listenersOf(hs, type) ==
  IF hs = << >> THEN << >>
  ELSE LET rest == listenersOf(SubSeq(hs, 1, Len(hs) - 1), type)
           h == hs[Len(hs)]
       IN IF h.live /\ h.type = type THEN Append(rest, h.id) ELSE rest

\* an emitter.emit(type, event) under way
frame(event, phase, hs) ==
  [event |-> event, phase |-> phase,
   listeners |-> listenersOf(hs, IF phase = "typed" THEN event.type ELSE ANY),
   next |-> 1]

top == stack[Len(stack)]
below == SubSeq(stack, 1, Len(stack) - 1)

\* the listener loop moves on to the next listener
advance == Append(below, [top EXCEPT !.next = @ + 1])

\* wrappedHandler's catch: logger.error(`Error in handler for ${type}`, ...)
caught(log, event) == Append(log, event.id)

\* the listener loop after a wrapped handler threw: the promise of the
\* async wrapper is dropped and the loop goes on
afterThrow == advance

\* bus.on(type, handler)
busOn(type, does, child) ==
  /\ stack = << >>
  /\ Len(handlers) < MaxHandlers
  /\ handlers' = addListener(handlers, type, TRUE, does, child)
  /\ UNCHANGED <<stack, emitted, delivered, returned, escaped, logged,
                 unhandled>>

\* bus.onAny(handler)
busOnAny(does) ==
  /\ stack = << >>
  /\ Len(handlers) < MaxHandlers
  /\ handlers' = addListener(handlers, ANY, FALSE, does, "")
  /\ UNCHANGED <<stack, emitted, delivered, returned, escaped, logged,
                 unhandled>>

\* the unsubscribe function on or onAny returned
busOff(id) ==
  /\ stack = << >>
  /\ handlers[id].live
  /\ handlers' = removeListener(handlers, id)
  /\ UNCHANGED <<stack, emitted, delivered, returned, escaped, logged,
                 unhandled>>

\* emit called from outside any handler: createEvent, logger.debug and
\* the start of `emitter.emit(type, event)`, which throws when the type is
\* "error" and the emitter has no listener for it
busEmit(type, parentContext) ==
  /\ stack = << >>
  /\ Len(emitted) < MaxEmits
  /\ LET event == createEvent(type, parentContext, freshSpan)
     IN /\ emitted' = Append(emitted, event)
        /\ IF type = "error" /\ listenersOf(handlers, type) = << >>
           THEN /\ escaped' = Append(escaped, event.id)
                /\ UNCHANGED stack
           ELSE /\ stack' = <<frame(event, "typed", handlers)>>
                /\ UNCHANGED escaped
  /\ UNCHANGED <<handlers, delivered, returned, logged, unhandled>>

\* the emitter calls the next listener of the list with the event
busInvoke ==
  /\ stack # << >>
  /\ top.next <= Len(top.listeners)
  /\ LET h == handlers[top.listeners[top.next]]
         event == top.event
     IN /\ delivered' = Append(delivered, [handler |-> h.id,
                                           event |-> event.id])
        /\ IF h.does = Emits /\ event.trace.parentId = NoSpan
           THEN \* bus.emit(child, ..., event.trace) from inside the handler
                LET childEvent == createEvent(h.child, event.trace, freshSpan)
                IN /\ emitted' = Append(emitted, childEvent)
                   /\ stack' = Append(advance,
                                      frame(childEvent, "typed", handlers))
                   /\ UNCHANGED <<escaped, logged, unhandled>>
           ELSE IF h.does \in {Returns, Emits}
           THEN /\ stack' = advance
                /\ UNCHANGED <<emitted, escaped, logged, unhandled>>
           ELSE IF h.wrapped
           THEN \* thrown at once or rejected later, the await is in the try
                /\ logged' = caught(logged, event)
                /\ stack' = afterThrow
                /\ UNCHANGED <<emitted, escaped, unhandled>>
           ELSE IF h.does = Rejects
           THEN \* nothing awaits or catches the promise of a raw listener
                /\ unhandled' = Append(unhandled, event.id)
                /\ stack' = advance
                /\ UNCHANGED <<emitted, escaped, logged>>
           ELSE \* a raw listener throws: emitter.emit and emit throw to
                \* emit's caller, a wrapped handler when the emit was nested
                /\ escaped' = Append(escaped, event.id)
                /\ stack' = below
                /\ logged' = IF below = << >> THEN logged
                             ELSE caught(logged, below[Len(below)].event)
                /\ UNCHANGED <<emitted, unhandled>>
  /\ UNCHANGED <<handlers, returned>>

\* `emitter.emit(type, event)` has returned: `emitter.emit("*", event)`
busAny ==
  /\ stack # << >>
  /\ top.phase = "typed"
  /\ top.next > Len(top.listeners)
  /\ stack' = Append(below, frame(top.event, "any", handlers))
  /\ UNCHANGED <<handlers, emitted, delivered, returned, escaped, logged,
                 unhandled>>

\* `return event`
busReturn ==
  /\ stack # << >>
  /\ top.phase = "any"
  /\ top.next > Len(top.listeners)
  /\ returned' = Append(returned, top.event.id)
  /\ stack' = below
  /\ UNCHANGED <<handlers, emitted, delivered, escaped, logged, unhandled>>

\* ------------------------------------------------- the bus, step by step
HistoryBus ==
  UNCHANGED <<ledgerVars, historyVars, jobVars, jobHistoryVars, gatewayVars,
              pipelineVars, processed, breaker, observed,
              laterVars>>

InitBus == InitLedger

\* the handlers that are subscribed to a type
OnInputs ==
  { <<"t", Returns, "">>, <<"t", Throws, "">>, <<"t", Rejects, "">>,
    <<"t", Emits, "t">>, <<"u", Returns, "">> }

\* the contexts emit is handed: none, or the trace of an event
Contexts == {NoContext} \cup {emitted[i].trace : i \in 1..Len(emitted)}

NextBus ==
  \/ \E i \in OnInputs : busOn(i[1], i[2], i[3]) /\ HistoryBus
  \/ \E does \in {Returns, Throws, Rejects} : busOnAny(does) /\ HistoryBus
  \/ \E id \in 1..Len(handlers) : busOff(id) /\ HistoryBus
  \/ \E type \in Types, parentContext \in Contexts :
       busEmit(type, parentContext) /\ HistoryBus
  \/ busInvoke /\ HistoryBus
  \/ busAny /\ HistoryBus
  \/ busReturn /\ HistoryBus

SpecBus == InitBus /\ [][NextBus]_vars
\* the event with the given id
eventWith(id) == emitted[id]

\* the event is the first of its trace: it was emitted with no parent context
IsRoot(e) == e.trace.parentId = NoSpan

\* listener h was called with event e as the i-th call of a listener
Invoked(i, h, e) == delivered[i].handler = h /\ delivered[i].event = e

WasInvoked(h, e) == \E i \in 1..Len(delivered) : Invoked(i, h, e)

Ids(seq) == {seq[i] : i \in 1..Len(seq)}

\* C14: trace causality. Every event's span id is its id; an event emitted
\* with no parent context has traceId = spanId = id and no parentId; an event
\* emitted with the trace of an event A has A's traceId and A's id as its
\* parentId; so every event carries the traceId of an event that has no
\* parent, the root of its chain.
C14_TraceCausality ==
  \A i \in 1..Len(emitted) :
    LET e == emitted[i]
    IN /\ e.id = i /\ e.trace.spanId = e.id
       /\ IsRoot(e) => e.trace.traceId = e.id
       /\ ~IsRoot(e) =>
            /\ e.trace.parentId \in 1..(i - 1)
            /\ e.trace.traceId = eventWith(e.trace.parentId).trace.traceId
       /\ e.trace.traceId \in 1..i
       /\ IsRoot(eventWith(e.trace.traceId))

\* a chain of three events: a root, its child and the child's child, which
\* carries the root's id as its traceId
C14_Witness ==
  \E a, b, c \in 1..Len(emitted) :
    /\ IsRoot(emitted[a])
    /\ emitted[b].trace.parentId = a
    /\ emitted[c].trace.parentId = b
    /\ emitted[c].trace.traceId = a
    /\ a # c

\* the typed handlers that raise: they throw, or their promise rejects
Raises(h) == h.does \in {Throws, Rejects}

\* C15: an exception of a handler registered with on is caught and logged:
\* when the emit of an event for which such a handler raised is over, the
\* event was logged and returned to emit's caller, nothing was thrown to the
\* caller, and every handler subscribed to the event's type and every
\* catch-all handler was invoked with the event.
C15_TypedHandlerIsolated ==
  [][ ( /\ Len(stack') < Len(stack)
        /\ \E i \in 1..Len(delivered) :
             /\ delivered[i].event = top.event.id
             /\ handlers[delivered[i].handler].wrapped
             /\ Raises(handlers[delivered[i].handler]) )
      => /\ top.event.id \in Ids(logged')
         /\ top.event.id \in Ids(returned')
         /\ escaped' = escaped
         /\ \A h \in 1..Len(handlers) :
              ( /\ handlers[h].live
                /\ handlers[h].type \in {top.event.type, ANY} )
              => WasInvoked(h, top.event.id)
    ]_vars

\* C16: an exception of a catch-all handler never reaches the caller of
\* emit: the call of a catch-all handler that raises throws nothing to emit's
\* caller and the loop goes on to the remaining catch-all handlers.
C16_CatchAllIsolated ==
  [][ ( /\ Len(delivered') > Len(delivered)
        /\ ~handlers[top.listeners[top.next]].wrapped
        /\ Raises(handlers[top.listeners[top.next]]) )
      => /\ escaped' = escaped
         /\ stack' = advance
    ]_vars

\* C17: FIFO per type. Of two events of one type, a handler that is invoked
\* with both is invoked first with the one emit was called for first.
C17_FifoPerType ==
  \A i \in 1..Len(delivered), j \in 1..Len(delivered) :
    ( /\ i < j
      /\ delivered[i].handler = delivered[j].handler
      /\ eventWith(delivered[i].event).type
           = eventWith(delivered[j].event).type )
    => delivered[i].event <= delivered[j].event

\* C18: subscribers are notified after emit has returned: when emit returns
\* an event no handler has been invoked with it.
C18_NoHandlerBeforeReturn ==
  [][ Len(returned') > Len(returned)
      => ~\E i \in 1..Len(delivered) : delivered[i].event = top.event.id
    ]_vars

\* ------------------------------------------------- the pre-flight checks
unknownModel == [success |-> FALSE, error |-> "Unknown model"]

\* the failure the checks before the queue give the request, or undefined
\* when it passes them: unknown model, then capability, then queue
preflightFailure(request) ==
  IF request.modelId \notin ModelIds THEN unknownModel
  ELSE IF ToolsOfToolless(request) THEN unsupportedTools
  ELSE IF configModels[request.modelId].provider # PROVIDER.OPENAI
  THEN [success |-> FALSE,
        error |-> noQueueError(configModels[request.modelId].provider)]
  ELSE Undefined

\* C21 as stated: a call with an unknown modelId resolves to the unknown-model
\* failure whatever else the request contains; otherwise one that fails the
\* capability check to the unsupported-capability failure; otherwise one for a
\* provider without a queue to the no-queue failure; and none of the three
\* calls enqueue or generate.
C21_PreflightOrder ==
  [][\A p \in Procs :
       (CallsGateway(p) /\ Truthy(preflightFailure(args'[p].request))) =>
         /\ pc'[p] = "resolved"
         /\ result'[p] = preflightFailure(args'[p].request)
         /\ queues' = queues]_vars

\* C21 (amended): the same order of failures, none of which calls enqueue or
\* generate, for every request that the deterministic bypass does not answer;
\* a request that names a task type with an active function that returns a
\* value with a text succeeds through the bypass before the model is looked
\* up, also with an unknown modelId, and one whose active function throws
\* null is rejected there.
C21_PreflightOrderAfterBypass ==
  [][\A p \in Procs :
       (CallsGateway(p) /\ Truthy(preflightFailure(args'[p].request))) =>
         /\ queues' = queues
         /\ IF Substituted(args'[p].request)
            THEN pc'[p] = "resolved" /\ Deterministic(result'[p])
            ELSE IF BypassFaults(args'[p].request)
            THEN pc'[p] = "rejected"
            ELSE /\ pc'[p] = "resolved"
                 /\ result'[p] = preflightFailure(args'[p].request)]_vars

\* C21 witness: with a function active, and after a call that reached the
\* provider, a call for a model with neither the tools it asks for nor a
\* queue failed on the capability, not on the queue.
C21_Witness ==
  \E p \in Procs :
    /\ pc[p] = "resolved"
    /\ args[p].op = "call"
    /\ args[p].request.modelId = "basic-model"
    /\ Has(args[p].request, "tools")
    /\ ~Has(args[p].request, "taskType")
    /\ result[p] = unsupportedTools
    /\ Truthy(activeFunctions["bypass_task"])
    /\ queues[PROVIDER.OPENAI].enqueued > 0

\* C22: router failures are values. No call is rejected; and when the queue
\* or the provider raises, the call resolves to a failure whose error is the
\* message of what was raised, as it is, and one more error is recorded with
\* the performance monitor.
C22_FailuresAreValues ==
  [][\A p \in Procs :
       /\ (args'[p] # NoArgs /\ args'[p].op = "call") => pc'[p] # "rejected"
       /\ ( /\ pc[p] = "call:provider" /\ pc'[p] # pc[p]
            /\ loc[p].outcome # "ok" )
          => /\ pc'[p] = "resolved"
             /\ Has(loc[p].thrown, "message")
             /\ result'[p] = [success |-> FALSE,
                              error |-> loc[p].thrown.message]
             /\ monitor'.errors = monitor.errors + 1]_vars

\* C23: a budget violation never reaches the network. A gateway call made
\* with the id of a job whose scope canSpend would refuse (no budget, or
\* spent beyond the limit) resolves to a failure and reaches no queue.
C23_BudgetBeforeQueue ==
  [][\A p \in Procs :
       ( /\ CallsGateway(p)
         /\ args'[p].jobId # NoJobId
         /\ ~canSpendResult(getBudget(budgets, args'[p].jobId), 0).success )
       => /\ queues' = queues
          /\ pc'[p] = "resolved"
          /\ ~result'[p].success]_vars

\* the request asks for structured output of a configured model that has no
\* JSON mode
SchemaOfSchemaless(request) ==
  /\ Has(request, "schema")
  /\ request.modelId \in ModelIds
  /\ CAPABILITY.JSON_MODE \notin configModels[request.modelId].capabilities

\* C24: the capability guard covers every declared capability. A call that
\* asks for structured output of a model without the JSON mode capability
\* resolves to a failure of validateCapabilities (a "Model does not support"
\* error) and reaches no provider queue.
C24_EveryCapabilityGuarded ==
  [][\A p \in Procs :
       (CallsGateway(p) /\ SchemaOfSchemaless(args'[p].request)) =>
         /\ pc'[p] = "resolved"
         /\ ~result'[p].success
         /\ result'[p].error \in {"Model does not support json_mode",
                                  "Model does not support structured output",
                                  "Model does not support schema"}
         /\ queues' = queues]_vars

\* the exact cost of a usage, in thousandths of a millionth of a dollar:
\* promptTokens x input rate + completionTokens x output rate, the rates
\* being millionths of a dollar per 1000 tokens
exactCost(modelId, usage) ==
  usage.promptTokens * configModels[modelId].cost.input1k
    + usage.completionTokens * configModels[modelId].cost.output1k

\* a call that the provider answered has resolved
Answered(p) ==
  /\ pc[p] = "resolved"
  /\ args[p].op = "call"
  /\ result[p].success
  /\ result[p].meta.provider # "internal"

\* C26 as stated: the cost reported by a successful provider call is exactly
\* (promptTokens/1000) x input rate + (completionTokens/1000) x output rate.
C26_CostFormula ==
  \A p \in Procs :
    Answered(p) =>
      result[p].meta.usage.cost * 1000
        = exactCost(args[p].request.modelId, loc[p].usage)

\* C26 (amended): the cost reported is that sum rounded to the sixth decimal
\* (to a millionth of a dollar): it differs from the sum by at most half a
\* millionth, and is the sum itself whenever the sum has no more than six
\* decimals, as with rates 0.03 and 0.06 and 10 and 20 tokens (0.0015).
C26_CostFormulaRounded ==
  \A p \in Procs :
    Answered(p) =>
      LET exact == exactCost(args[p].request.modelId, loc[p].usage)
          cost == result[p].meta.usage.cost
      IN /\ cost * 1000 - exact <= 500
         /\ exact - cost * 1000 <= 500
         /\ exact % 1000 = 0 => cost * 1000 = exact
         /\ ( /\ args[p].request.modelId = "gpt-4"
              /\ loc[p].usage = rawResponse.usage ) => cost = 1500

\* C26 witness: a call answered with one token each way by the model whose
\* rates give a cost of less than a millionth reported a millionth
C26_Witness ==
  \E p \in Procs :
    /\ Answered(p)
    /\ args[p].request.modelId = "small-model"
    /\ loc[p].usage.promptTokens = 1
    /\ result[p].meta.usage.cost = 1
\* ------------------------------------------ the pipeline, event by event
HistoryPipeline ==
  UNCHANGED <<historyVars, jobHistoryVars, busVars, processed, breaker, observed,
              laterVars>>

InitPipeline == InitLedger

\* the task type the completion events and the router calls are about
Task == "summarize"

\* the confidence the promotion test sets: 0.995; and one short of the
\* threshold even after a match: 0.989
PresetScores == {99500, 98900}

\* the payloads of JOB_COMPLETED: with or without a task type and a cost
Payloads ==
  { Spread(Spread([input |-> i, output |-> o], task), cost) :
      i \in Inputs, o \in Outputs,
      task \in {<< >>, [taskType |-> Task]},
      cost \in {<< >>, [cost |-> 3]} }

\* the router's requests for the task, made once a function is active
TaskRequests ==
  { [modelId |-> "gpt-4", messages |-> i, taskType |-> Task] : i \in Inputs }

Completions == Len(taskHistory[Task])

NextPipeline ==
  \/ \E implementation \in Implementations :
       /\ Quiet
       /\ ~Truthy(shadowFunctions[Task])
       /\ registerFunction(Task, implementation, FALSE)
       /\ HistoryPipeline
  \/ \E implementation \in {"string", "object"} :
       /\ Quiet
       /\ IF Truthy(activeFunctions[Task])
          THEN activeFunctions[Task].implementation # implementation
          ELSE TRUE
       /\ registerFunction(Task, implementation, TRUE)
       /\ HistoryPipeline
  \/ \E score \in PresetScores :
       /\ Quiet
       /\ Truthy(shadowFunctions[Task])
       /\ shadowFunctions[Task].confidenceScore = 0
       /\ presetConfidence(Task, score)
       /\ HistoryPipeline
  \/ \E payload \in Payloads :
       /\ Quiet
       /\ Completions < MaxCompletions
       /\ handleJobCompleted(payload)
       /\ HistoryPipeline
  \/ \E payload \in Payloads :
       Quiet /\ ignoreJobCompleted(payload) /\ HistoryPipeline
  \/ \E request \in TaskRequests :
       /\ Quiet
       /\ Truthy(activeFunctions[Task])
       /\ queues[PROVIDER.OPENAI].enqueued < MaxCalls
       /\ callStart(Caller, request, NoJobId)
       /\ HistoryPipeline
  \/ \E p \in Procs : callRespond(p) /\ HistoryPipeline
  \/ \E p \in Procs : Resume(p) /\ UNCHANGED <<gatewayVars, pipelineVars>>
                                /\ HistoryPipeline

SpecPipeline == InitPipeline /\ [][NextPipeline]_vars

\* ---------------------------------------------------- promotion (C27)
last(seq) == seq[Len(seq)]

\* the function returns, for this input, the value the event reports
Agrees(implementation, input, output) ==
  \/ implementation \in {"string", "object"} /\ output = implementation
  \/ implementation = "partial" /\ input = KnownInput /\ output = "string"

\* this step handles a completion event for t whose output the shadow
\* function of t reproduces, and 0.95 * score + 0.05 exceeds 0.99
Crossing(t) ==
  /\ Len(taskHistory'[t]) = Len(taskHistory[t]) + 1
  /\ Truthy(shadowFunctions[t])
  /\ Agrees(shadowFunctions[t].implementation,
            last(taskHistory'[t]).input, last(taskHistory'[t]).output)
  /\ 95 * shadowFunctions[t].confidenceScore + 5 * ScoreUnit > 99 * ScoreUnit

\* the record the step moved out of shadowFunctions[t] is the active one
\* afterwards, the shadow entry is gone and the candidate is optimized
Moved(t) ==
  /\ Truthy(activeFunctions'[t])
  /\ activeFunctions'[t].id = shadowFunctions[t].id
  /\ activeFunctions'[t].implementation = shadowFunctions[t].implementation
  /\ aboveThreshold(activeFunctions'[t].confidenceScore)
  /\ ~Truthy(shadowFunctions'[t])
  /\ candidates'[t].status = "optimized"

\* the active function of t got there by crossing the threshold: its score
\* is above 0.99 and below the 1.0 of a function registered as active
Promoted(t) ==
  /\ Truthy(activeFunctions[t])
  /\ aboveThreshold(activeFunctions[t].confidenceScore)
  /\ activeFunctions[t].confidenceScore < ScoreUnit

Answers(p) ==
  /\ Steps(p, "canSpend:check", "resolved")
  /\ \A q \in Procs \ {p} : pc[q] = "idle"
  /\ loc[p].budget = budgets[args[p].scopeId]

\* C28: canSpend changes no scope; for a scope that exists it fails as
\* budget exceeded exactly when spent + estimatedCost > limit, spent being
\* the sum of the spends recorded on the scope and of the allocations made
\* out of it since its last setBudget, and succeeds otherwise; for a scope
\* that was never created it fails as not found.
C28_CanSpendReadsLedger ==
  [][\A p \in Procs :
       Answers(p) =>
         LET s == args[p].scopeId
             spent == recorded[s] + granted[s]
         IN /\ budgets' = budgets
            /\ IF ~Truthy(budgets[s])
               THEN result'[p] = [success |-> FALSE, error |-> "No budget found"]
               ELSE IF spent + args[p].estimatedCost > budgets[s].limit
               THEN result'[p] = [success |-> FALSE, error |-> "Budget exceeded"]
               ELSE result'[p] = [success |-> TRUE]]_vars

\* ---------------------------------------------- recordSpend (C29)
\* C29: recordSpend on an existing scope adds amount to the scope's spent,
\* whether or not the result exceeds the limit, leaves the limit and every
\* other scope as they are and returns remaining = limit - the new spent;
\* on a scope that does not exist it fails and the store is unchanged.
C29_RecordSpendAdds ==
  [][\A p \in Procs :
       LET s == args[p].scopeId
       IN /\ Steps(p, "recordSpend:update", "recordSpend:return") =>
               /\ budgets'[s].spent = budgets[s].spent + args[p].amount
               /\ budgets'[s].limit = budgets[s].limit
               /\ \A o \in Scopes \ {s} : budgets'[o] = budgets[o]
          /\ Steps(p, "recordSpend:return", "resolved") =>
               /\ budgets' = budgets
               /\ result'[p] =
                    [success |-> TRUE,
                     remaining |-> budgets[s].limit - budgets[s].spent]
          /\ Steps(p, "recordSpend:update", "resolved") =>
               /\ ~result'[p].success
               /\ ~Truthy(budgets'[s])
               /\ budgets' = budgets]_vars

\* ---------------------------------------------- failed allocate (C30)
\* C30: an allocate whose source scope did not exist when the call was made
\* fails as source not found, one whose source had spent + amount > limit
\* fails as insufficient budget, and after any failed allocate every scope,
\* the source and the destination included, is as it was when the call was
\* made: nothing is modified and nothing is created.
C30_FailedAllocateChangesNothing ==
  \A p \in Procs :
    (pc[p] = "resolved" /\ args[p].op = "allocate") =>
      LET parent == pre[p][args[p].fromScopeId]
      IN /\ ~Truthy(parent) =>
              result[p] = [success |-> FALSE,
                           error |-> "Source budget not found"]
         /\ (Truthy(parent) /\ parent.spent + args[p].amount > parent.limit) =>
              result[p] = [success |-> FALSE,
                           error |-> "Insufficient budget in source"]
         /\ ~result[p].success => budgets = pre[p]

\* C30 witness: an allocate failed as insufficient budget out of a source
\* that had already spent, into a destination that does not exist.
C30_Witness ==
  \E p \in Procs :
    /\ pc[p] = "resolved"
    /\ args[p].op = "allocate"
    /\ result[p] = [success |-> FALSE,
                    error |-> "Insufficient budget in source"]
    /\ args[p].fromScopeId # args[p].toScopeId
    /\ pre[p][args[p].fromScopeId].spent > 0
    /\ ~Truthy(budgets[args[p].toScopeId])

\* ------------------------------ the provider queue's circuit breaker
\* The gateway hands every provider call to queue.enqueue and leaves rate
\* limiting and circuit breaking to the queue; the queue is described in the
\* gateway's design notes only, and is modelled here from that description.

\* the outcomes the rolling window holds
Window == 2
\* the circuit opens when more than this share of the window is errors
ThresholdPercent == 50
\* the cooldown, in ticks of the clock
Cooldown == 1

errorsIn(window) ==
  Cardinality({ i \in DOMAIN window : window[i] = "error" })

\* the error rate of the window is above the threshold
tripped(window) ==
  /\ Len(window) > 0
  /\ errorsIn(window) * 100 > ThresholdPercent * Len(window)

\* the window after one more outcome
slide(window, outcome) ==
  LET w == Append(window, outcome)
  IN IF Len(w) > Window THEN Tail(w) ELSE w

\* the cooldown of an open circuit is over
cooledDown(b) == now >= b.openedAt + Cooldown

\* mutant: the breaker lets every call through
verdict_AlwaysPass(b) == "pass"

\* what the breaker decides for a call submitted now: let it through, let
\* it through as the half-open trial, or fail it fast
verdict(b) ==
  IF b.state = "closed" THEN "pass"
  ELSE IF b.state = "open" /\ cooledDown(b) THEN "trial"
  ELSE "CircuitOpen"

\* queue.enqueue(...) of provider q
submit(q) ==
  /\ queues[q].enqueued < MaxSubmits
  /\ LET b == breaker[q]
         v == verdict(b)
     IN /\ queues' =
             [queues EXCEPT
                ![q].enqueued = @ + 1,
                ![q].generated = IF v = "CircuitOpen" THEN @ ELSE @ + 1]
        /\ breaker' =
             [breaker EXCEPT
                ![q] = IF v = "CircuitOpen"
                       THEN [b EXCEPT !.rejected = @ + 1]
                       ELSE IF v = "trial"
                       THEN [b EXCEPT !.state = "halfOpen", !.trial = TRUE]
                       ELSE [b EXCEPT !.pending = @ + 1]]
  /\ UNCHANGED <<ledgerVars, jobVars, monitor, workLog, pipelineVars>>

\* the provider answers a call that was let through while the circuit was
\* closed: the outcome enters the window, and a closed circuit opens when
\* the window's error rate is above the threshold
answer(q, outcome) ==
  /\ breaker[q].pending > 0
  /\ LET b == breaker[q]
         w == slide(b.window, outcome)
     IN breaker' =
          [breaker EXCEPT
             ![q] = IF b.state # "closed"
                    THEN [b EXCEPT !.pending = @ - 1]
                    ELSE IF tripped(w)
                    THEN [b EXCEPT !.pending = @ - 1, !.window = w,
                                   !.state = "open", !.openedAt = now]
                    ELSE [b EXCEPT !.pending = @ - 1, !.window = w]]
  /\ UNCHANGED <<ledgerVars, jobVars, gatewayVars, pipelineVars>>

\* the provider answers the half-open trial: success closes the circuit
\* with an empty window, an error opens it for another cooldown
answerTrial(q, outcome) ==
  /\ breaker[q].trial
  /\ breaker' =
       [breaker EXCEPT
          ![q] = IF outcome = "ok"
                 THEN [@ EXCEPT !.trial = FALSE, !.state = "closed",
                                !.window = << >>]
                 ELSE [@ EXCEPT !.trial = FALSE, !.state = "open",
                                !.openedAt = now]]
  /\ UNCHANGED <<ledgerVars, jobVars, gatewayVars, pipelineVars>>

HistoryBreaker ==
  UNCHANGED <<historyVars, jobHistoryVars, busVars, processed, observed,
              laterVars>>

InitBreaker == InitLedger

\* the providers whose queues are called
BreakerProviders == {PROVIDER.OPENAI, PROVIDER.ANTHROPIC}
Outcomes == {"ok", "error"}

NextBreaker ==
  \/ \E q \in BreakerProviders : submit(q) /\ HistoryBreaker
  \/ \E q \in BreakerProviders, outcome \in Outcomes :
       answer(q, outcome) /\ HistoryBreaker
  \/ \E q \in BreakerProviders, outcome \in Outcomes :
       answerTrial(q, outcome) /\ HistoryBreaker
  \/ Tick /\ UNCHANGED <<gatewayVars, pipelineVars, breaker>>
          /\ HistoryBreaker

SpecBreaker == InitBreaker /\ [][NextBreaker]_vars

\* a call is submitted to q's queue in this step
Submits(q) == queues'[q].enqueued = queues[q].enqueued + 1

\* the call submitted in this step fails at once, without reaching the
\* provider
FailsFast(q) ==
  /\ queues'[q].generated = queues[q].generated
  /\ breaker'[q].rejected = breaker[q].rejected + 1

\* C25: when an answer brings the error rate of a closed circuit's window
\* above the threshold the circuit opens; until the cooldown is over every
\* call submitted to that provider fails at once as CircuitOpen without
\* reaching the provider; the first call submitted after the cooldown is let
\* through as the half-open trial, and until the trial is answered every
\* other call fails at once: at most one trial is at the provider.
C25_CircuitBreaker ==
  [][\A q \in Providers :
       /\ (/\ breaker[q].state = "closed"
           /\ breaker'[q].window # breaker[q].window
           /\ tripped(breaker'[q].window)) =>
             /\ breaker'[q].state = "open"
             /\ breaker'[q].openedAt = now
       /\ (/\ Submits(q)
           /\ breaker[q].state = "open"
           /\ now < breaker[q].openedAt + Cooldown) => FailsFast(q)
       /\ (/\ Submits(q)
           /\ breaker[q].state = "open"
           /\ now >= breaker[q].openedAt + Cooldown) =>
             /\ queues'[q].generated = queues[q].generated + 1
             /\ breaker'[q].trial
             /\ breaker'[q].state = "halfOpen"
       /\ (Submits(q) /\ breaker[q].state = "halfOpen") =>
             /\ breaker[q].trial
             /\ FailsFast(q)]_vars

\* C25 witness: a circuit opened, a call failed fast, and after the cooldown
\* the trial is at the provider while another call has failed fast.
C25_Witness ==
  \E q \in Providers :
    /\ breaker[q].state = "halfOpen"
    /\ breaker[q].trial
    /\ breaker[q].rejected >= 2
    /\ now >= breaker[q].openedAt + Cooldown

\* ------------------------------------------ promotion's only cause (C33)
\* this step handles a completion event for t
Completes(t) == Len(taskHistory'[t]) = Len(taskHistory[t]) + 1

\* t's function became active, or t's candidate became optimized, in this step
Promotes(t) ==
  \/ activeFunctions'[t] # activeFunctions[t]
  \/ /\ Truthy(candidates'[t])
     /\ candidates'[t].status = "optimized"
     /\ ~Truthy(candidates[t]) \/ candidates[t].status # "optimized"

\* C33: a completion event moves a function into activeFunctions, or makes a
\* candidate optimized, only when the shadow function reproduces the event's
\* output and the score it is left with is above 0.99; an event whose output
\* differs, an event the shadow function throws for, and an event that takes
\* the frequency to the optimization threshold promote nothing.
C33_PromotedOnlyByMatch ==
  [][\A t \in TaskTypes :
       (Completes(t) /\ Promotes(t)) =>
         /\ Truthy(shadowFunctions[t])
         /\ Agrees(shadowFunctions[t].implementation,
                   last(taskHistory'[t]).input, last(taskHistory'[t]).output)
         /\ activeFunctions'[t].id = shadowFunctions[t].id
         /\ activeFunctions'[t].confidenceScore * 100 > 99 * ScoreUnit
         /\ 95 * shadowFunctions[t].confidenceScore + 5 * ScoreUnit
              > 99 * ScoreUnit]_vars

\* C33 witness: two events were handled, the frequency is at the threshold,
\* the shadow function threw for one of them at a score of 0.995 and is
\* still a shadow function; nothing is active.
C33_Witness ==
  /\ Truthy(shadowFunctions[Task])
  /\ shadowFunctions[Task].confidenceScore < 99500
  /\ shadowFunctions[Task].confidenceScore >= 75000
  /\ candidates[Task].frequency >= optimizationThreshold
  /\ ~Truthy(activeFunctions[Task])

\* --------------------------------------- confidence arithmetic (C34, C35)
\* the shadow function run on the input throws, or returns a value
\* JSON.stringify throws for
Fails(implementation, input) ==
  \/ implementation \in {"throws", "throwsNull", "unserializable"}
  \/ implementation = "partial" /\ input # KnownInput

\* the score of t's shadow function after this step, wherever promotion
\* has put the record
scoreAfter(t) ==
  IF Truthy(shadowFunctions'[t]) THEN shadowFunctions'[t].confidenceScore
  ELSE activeFunctions'[t].confidenceScore

\* score is hundredths / 100, to the last digit kept
IsHundredth(score, hundredths) ==
  100 * score <= hundredths /\ hundredths < 100 * score + 100

\* C34: a completion event handled while a shadow function is registered
\* leaves its score within [0,1]: 0.95c + 0.05 when the function reproduces
\* the output, 0.95c when it returns another value, and 0.8c, no more than
\* the 0.95c of a mismatch, when the run throws.
C34_ConfidenceArithmetic ==
  [][\A t \in TaskTypes :
       (Completes(t) /\ Truthy(shadowFunctions[t])) =>
         LET c == shadowFunctions[t].confidenceScore
             f == shadowFunctions[t].implementation
             e == last(taskHistory'[t])
         IN /\ 0 <= scoreAfter(t) /\ scoreAfter(t) <= ScoreUnit
            /\ Agrees(f, e.input, e.output) =>
                 IsHundredth(scoreAfter(t), 95 * c + 5 * ScoreUnit)
            /\ (~Agrees(f, e.input, e.output) /\ ~Fails(f, e.input)) =>
                 IsHundredth(scoreAfter(t), 95 * c)
            /\ Fails(f, e.input) =>
                 /\ IsHundredth(scoreAfter(t), 80 * c)
                 /\ 100 * scoreAfter(t) <= 95 * c]_vars

\* the shadow function itself throws for the input
Throwing(implementation, input) ==
  \/ implementation \in {"throws", "throwsNull"}
  \/ implementation = "partial" /\ input # KnownInput

\* the frequency t's candidate counts with before it exists
frequencyBefore(t) ==
  IF Truthy(candidates[t]) THEN candidates[t].frequency ELSE 0

\* C35: when the shadow function throws while a completion event is handled,
\* the event is still counted (frequency, rolling history), the function
\* stays registered as shadow with nothing promoted and the candidate's
\* status as it was, and its confidenceScore is lowered.
C35_ShadowExceptionIsSignal ==
  [][\A t \in TaskTypes :
       (/\ Completes(t)
        /\ Truthy(shadowFunctions[t])
        /\ Throwing(shadowFunctions[t].implementation,
                    last(taskHistory'[t]).input)) =>
         /\ candidates'[t].frequency = frequencyBefore(t) + 1
         /\ candidates'[t].status = candidates[t].status
         /\ activeFunctions' = activeFunctions
         /\ Truthy(shadowFunctions'[t])
         /\ shadowFunctions'[t].id = shadowFunctions[t].id
         /\ shadowFunctions'[t].implementation
              = shadowFunctions[t].implementation
         /\ shadowFunctions'[t].confidenceScore
              <= shadowFunctions[t].confidenceScore
         /\ shadowFunctions[t].confidenceScore > 0 =>
              shadowFunctions'[t].confidenceScore
                < shadowFunctions[t].confidenceScore]_vars

\* --------------------------------- the pipeline over a long run of events
\* the events handled with a task type, per type: their number and the sum
\* of their costs; and the number of events handled without a task type
TrackObserved(payload) ==
  observed' =
    IF Has(payload, "taskType")
    THEN [observed EXCEPT
            !.typed[payload.taskType].count = @ + 1,
            !.typed[payload.taskType].total =
               @ + (IF Has(payload, "cost") THEN payload.cost ELSE 0)]
    ELSE [observed EXCEPT !.untyped = @ + 1]

HistoryWindowed ==
  UNCHANGED <<historyVars, jobHistoryVars, busVars, processed, breaker,
              laterVars>>

InitWindowed == InitLedger

\* the event that is repeated: the output the function "string" returns
SteadyPayload ==
  [taskType |-> Task, input |-> KnownInput, output |-> "string", cost |-> 3]

Seen == observed.typed[Task].count

NextWindowed ==
  \/ \E implementation \in {"string", "throwsNull"} :
       /\ Seen = 0
       /\ ~Truthy(shadowFunctions[Task])
       /\ registerFunction(Task, implementation, FALSE)
       /\ UNCHANGED observed
       /\ HistoryWindowed
  \/ \E payload \in Payloads :
       /\ Seen < MaxVaried
       /\ handleJobCompleted(payload)
       /\ TrackObserved(payload)
       /\ HistoryWindowed
  \/ /\ Seen >= MaxVaried
     /\ Seen < HistoryWindow + MaxOverflow
     /\ handleJobCompleted(SteadyPayload)
     /\ TrackObserved(SteadyPayload)
     /\ HistoryWindowed
  \/ \E payload \in Payloads :
       /\ observed.untyped < MaxUntyped
       /\ ignoreJobCompleted(payload)
       /\ TrackObserved(payload)
       /\ HistoryWindowed

SpecWindowed == InitWindowed /\ [][NextWindowed]_vars

\* all of a sequence but its last element
front(seq) == SubSeq(seq, 1, Len(seq) - 1)

\* C36: for every task type the candidate's frequency is the number of
\* completion events handled with that type and its avgCost is the mean of
\* their costs, a missing cost counting as 0; an event without a task type
\* changes no candidate and no history; the rolling history of a type holds
\* at most 200 entries, and an event handled when it is full drops the
\* oldest entry and adds the new one at the end.
C36_CandidateStatistics ==
  [][/\ \A t \in TaskTypes :
          /\ observed'.typed[t].count > 0 =>
               /\ candidates'[t].frequency = observed'.typed[t].count
               /\ candidates'[t].avgCost.num * observed'.typed[t].count
                    = observed'.typed[t].total * candidates'[t].avgCost.den
          /\ Len(taskHistory'[t]) <= 200
          /\ observed'.typed[t].count = observed.typed[t].count + 1 =>
               front(taskHistory'[t]) =
                 IF Len(taskHistory[t]) < 200 THEN taskHistory[t]
                 ELSE Tail(taskHistory[t])
     /\ observed'.untyped # observed.untyped =>
          /\ candidates' = candidates
          /\ taskHistory' = taskHistory]_vars

\* C36 witness: more events than the window holds were handled for the
\* task, the first without a cost, so the mean is no whole number; the
\* history is full, and an event without a task type was handled too.
C36_Witness ==
  /\ Seen > HistoryWindow
  /\ Len(taskHistory[Task]) = HistoryWindow
  /\ candidates[Task].avgCost.den > 1
  /\ observed.untyped > 0

\* ------------------------------------------- active functions (C37, C38)
\* C37: a task type with an entry in activeFunctions has a candidate whose
\* status is optimized, in every state reached by registrations (active or
\* shadow), completion events and promotions.
C37_ActiveIsOptimized ==
  \A t \in TaskTypes :
    Truthy(activeFunctions[t]) =>
      /\ Truthy(candidates[t])
      /\ candidates[t].status = "optimized"

\* this step is registerFunction(t, fn, true): a record with score 1.0 is
\* stored as the active one, the shadow entry and the history are untouched
RegistersActive(t) ==
  /\ activeFunctions'[t].confidenceScore = ScoreUnit
  /\ shadowFunctions'[t] = shadowFunctions[t]
  /\ taskHistory'[t] = taskHistory[t]

\* this step handles a completion event of t that moves t's shadow function
\* into activeFunctions
MovesShadow(t) ==
  /\ Completes(t)
  /\ Truthy(shadowFunctions[t])
  /\ ~Truthy(shadowFunctions'[t])
  /\ activeFunctions'[t].id = shadowFunctions[t].id

StoreScopes == {<<"job-1">>, <<"job-1", "0">>}

\* the keys of a context, and the values a stored context gives them: a
\* value, or "absent" when the context has no such key
ContextKeys == {"step", "note"}
StoredValues == [step : {"absent", "1", "2"}, note : {"absent", "1"}]
EmptyContext == [step |-> "absent", note |-> "absent"]

\* the patches of updateContext: a key may also be given the value undefined
Patches ==
  [step : {"absent", "1", "2", "undefined"}, note : {"absent", "1"}]
    \ {EmptyContext}

\* timestamp.toString()
toString(timestamp) ==
  <<"0", "1", "2", "3", "4", "5", "6", "7", "8", "9">>[timestamp + 1]

\* `context:${scopeId}` and `checkpoint:${scopeId}:${timestamp}`
contextKey(scopeId) == <<"context">> \o scopeId
checkpointKey(scopeId, timestamp) ==
  <<"checkpoint">> \o scopeId \o <<timestamp>>

\* JSON.parse(JSON.stringify(value)): a key whose value is undefined is left
\* out
serialize(value) ==
  [k \in ContextKeys |-> IF value[k] = "undefined" THEN "absent" ELSE value[k]]

\* adapter.get(key): store.get(key)
adapterGet(key) ==
  IF key \in DOMAIN memory THEN [found |-> TRUE, value |-> memory[key]]
  ELSE [found |-> FALSE]

\* adapter.set(key, value): store.set(key, JSON.parse(JSON.stringify(value)))
adapterSet(key, value) ==
  memory' = [k \in (DOMAIN memory) \cup {key} |->
               IF k = key THEN serialize(value) ELSE memory[k]]

\* { ...current, ...patch }
merge(current, patch) ==
  [k \in ContextKeys |-> IF patch[k] # "absent" THEN patch[k] ELSE current[k]]

\* (await adapter.get(`context:${scopeId}`)) || {}
getContext(scopeId) ==
  LET stored == adapterGet(contextKey(scopeId))
  IN IF stored.found THEN stored.value ELSE EmptyContext

\* memoryStore.updateContext(scopeId, patch)
updateContext(scopeId, patch) ==
  /\ adapterSet(contextKey(scopeId), merge(getContext(scopeId), patch))
  /\ UNCHANGED <<ledgerVars, jobVars, gatewayVars, pipelineVars>>

\* memoryStore.saveCheckpoint(scopeId), which returns timestamp.toString()
saveCheckpoint(scopeId) ==
  /\ adapterSet(checkpointKey(scopeId, toString(now)), getContext(scopeId))
  /\ UNCHANGED <<ledgerVars, jobVars, gatewayVars, pipelineVars>>

\* mutant: the checkpoint is merged into the current context
restoreCheckpoint_Merged(scopeId, timestamp) ==
  LET checkpoint == adapterGet(checkpointKey(scopeId, timestamp))
  IN /\ IF ~checkpoint.found
        THEN UNCHANGED memory
        ELSE adapterSet(contextKey(scopeId),
                        merge(getContext(scopeId), checkpoint.value))
     /\ UNCHANGED <<ledgerVars, jobVars, gatewayVars, pipelineVars>>

\* memoryStore.restoreCheckpoint(scopeId, timestamp); without a checkpoint
\* under the key it throws and writes nothing
restoreCheckpoint(scopeId, timestamp) ==
  LET checkpoint == adapterGet(checkpointKey(scopeId, timestamp))
  IN /\ IF ~checkpoint.found
        THEN UNCHANGED memory
        ELSE adapterSet(contextKey(scopeId), checkpoint.value)
     /\ UNCHANGED <<ledgerVars, jobVars, gatewayVars, pipelineVars>>

\* the context of the scope at each saveCheckpoint, under the id returned
TrackSaved(scopeId) ==
  LET id == <<scopeId, toString(now)>>
  IN checkpointed' =
       [saved |-> [c \in (DOMAIN checkpointed.saved) \cup {id} |->
                     IF c = id THEN getContext(scopeId)
                     ELSE checkpointed.saved[c]],
        saves |-> checkpointed.saves + 1,
        last |-> [op |-> "save", scopeId |-> scopeId, id |-> toString(now)]]

TrackStoreCall(op, scopeId, id) ==
  checkpointed' =
    [checkpointed EXCEPT !.last = [op |-> op, scopeId |-> scopeId, id |-> id]]

HistoryStore ==
  UNCHANGED <<historyVars, jobHistoryVars, busVars, processed, breaker,
              observed, composeVars>>

InitStore == InitLedger

Timestamps == {toString(t) : t \in 0..MaxStoreClock}

NextStore ==
  \/ \E scopeId \in StoreScopes, patch \in Patches :
       /\ updateContext(scopeId, patch)
       /\ TrackStoreCall("update", << >>, "")
       /\ HistoryStore
  \/ \E scopeId \in StoreScopes :
       /\ checkpointed.saves < MaxSaves
       /\ saveCheckpoint(scopeId)
       /\ TrackSaved(scopeId)
       /\ HistoryStore
  \/ \E scopeId \in StoreScopes, timestamp \in Timestamps :
       /\ restoreCheckpoint(scopeId, timestamp)
       /\ TrackStoreCall("restore", scopeId, timestamp)
       /\ HistoryStore
  \/ /\ now < MaxStoreClock
     /\ Tick
     /\ UNCHANGED <<gatewayVars, pipelineVars, storeVars>>
     /\ HistoryStore

SpecStore == InitStore /\ [][NextStore]_vars

\* C31: restoreCheckpoint(scope, c), for an id c that saveCheckpoint returned
\* for the scope, leaves getContext(scope) equal to the context of the scope
\* when the checkpoint c was saved, whatever updateContext calls came after:
\* no key added since is kept; and the context of no other scope changes.
C31_CheckpointRoundTrip ==
  [][\A scopeId \in StoreScopes, c \in Timestamps :
       /\ checkpointed'.last = [op |-> "restore", scopeId |-> scopeId, id |-> c]
       /\ <<scopeId, c>> \in DOMAIN checkpointed.saved
       => /\ getContext(scopeId)' = checkpointed.saved[<<scopeId, c>>]
          /\ \A other \in StoreScopes \ {scopeId} :
               getContext(other)' = getContext(other)]_vars

\* C31 witness: a checkpoint of a scope was restored after the scope's
\* context had been given one more key and another value, which the restored
\* context does not have, while another scope holds a context of its own.
C31_Witness ==
  /\ checkpointed.last.op = "restore"
  /\ <<checkpointed.last.scopeId, checkpointed.last.id>>
       \in DOMAIN checkpointed.saved
  /\ getContext(checkpointed.last.scopeId) = [step |-> "1", note |-> "absent"]
  /\ \E other \in StoreScopes \ {checkpointed.last.scopeId} :
       getContext(other) = [step |-> "2", note |-> "1"]
\* ------------------------------------------------ agents and pipelines
\* an agent: createAgent(metadata, executionLogic). Data is the trail of the
\* agents it went through; the input schema of a "first" agent admits the
\* empty trail only, any other schema admits every trail
AgentKinds == {"passes", "first", "throws", "throwsString"}

\* metadata.inputSchema.parse(input) throws
rejectsInput(agent, input) == agent.kind = "first" /\ input # << >>

\* agent.execute(input, context) of an agent made by createAgent
agentExecute(agent, input) ==
  IF rejectsInput(agent, input)
  THEN [success |-> FALSE, error |-> [message |-> "ZodError"]]
  ELSE IF agent.kind = "throws"
  THEN [success |-> FALSE, error |-> [message |-> "Execution failed"]]
  ELSE IF agent.kind = "throwsString"
  THEN [success |-> FALSE, error |-> [message |-> "String(error)"]]
  ELSE [success |-> TRUE, data |-> Append(input, agent.name)]

\* pipeline.execute(initialInput, context) up to the first iteration
pipelineExecute(agents, initialInput) ==
  /\ composition.state = "idle"
  /\ composition' = [state |-> "running", agents |-> agents, position |-> 1,
                     currentInput |-> initialInput]
  /\ UNCHANGED <<ledgerVars, jobVars, gatewayVars, pipelineVars>>

\* mutant: the loop goes on after a failure, with the input it had
pipelineIterate_GoesOn ==
  /\ composition.state = "running"
  /\ IF composition.position > Len(composition.agents)
     THEN composition' =
            [state |-> "returned",
             result |-> [success |-> TRUE,
                         data |-> composition.currentInput]]
     ELSE LET agent == composition.agents[composition.position]
              outcome == agentExecute(agent, composition.currentInput)
          IN composition' =
               [composition EXCEPT
                  !.position = @ + 1,
                  !.currentInput = IF outcome.success THEN outcome.data ELSE @]
  /\ UNCHANGED <<ledgerVars, jobVars, gatewayVars, pipelineVars>>

\* one iteration of the loop of pipeline.execute: await agent.execute,
\* return the result if it is a failure, else go on with its data; after the
\* last agent, return { success: true, data: currentInput }
pipelineIterate ==
  /\ composition.state = "running"
  /\ IF composition.position > Len(composition.agents)
     THEN composition' =
            [state |-> "returned",
             result |-> [success |-> TRUE,
                         data |-> composition.currentInput]]
     ELSE LET agent == composition.agents[composition.position]
              outcome == agentExecute(agent, composition.currentInput)
          IN IF ~outcome.success
             THEN composition' = [state |-> "returned", result |-> outcome]
             ELSE composition' =
                    [composition EXCEPT !.position = @ + 1,
                                        !.currentInput = outcome.data]
  /\ UNCHANGED <<ledgerVars, jobVars, gatewayVars, pipelineVars>>

\* the calls of agent.execute, in the order they were made: the agent, the
\* input it was given and the result it gave
TrackExecutions ==
  executions' =
    IF /\ composition.state = "running"
       /\ composition.position <= Len(composition.agents)
    THEN LET agent == composition.agents[composition.position]
         IN Append(executions,
                   [agent |-> agent.name,
                    input |-> composition.currentInput,
                    result |-> agentExecute(agent, composition.currentInput)])
    ELSE executions

HistoryCompose ==
  UNCHANGED <<historyVars, jobHistoryVars, busVars, processed, breaker,
              observed, storeVars>>

InitCompose == InitLedger

\* the lists of up to MaxAgents agents, named by their place in the list
AgentLists ==
  UNION { [1..n -> AgentKinds] : n \in 0..MaxAgents }

instantiate(kinds) ==
  [i \in 1..Len(kinds) |-> [name |-> toString(i), kind |-> kinds[i]]]

NextCompose ==
  \/ \E kinds \in AgentLists :
       /\ pipelineExecute(instantiate(kinds), << >>)
       /\ executions' = << >>
       /\ HistoryCompose
  \/ pipelineIterate /\ TrackExecutions /\ HistoryCompose

SpecCompose == InitCompose /\ [][NextCompose]_vars

\* the run of a list of agents has returned
Returned == composition.state = "returned"

\* C32: the agents are executed in the order of the list, the first with
\* the initial input and each later one with the data of the one before it;
\* once an agent fails, none is executed after it and the pipeline returns
\* that agent's result as it is; when all of a list of agents have
\* succeeded the pipeline returns success with the last agent's data.
C32_PipelineInOrder ==
  /\ \A i \in 1..Len(executions) :
       /\ executions[i].agent = toString(i)
       /\ executions[i].input =
            IF i = 1 THEN << >> ELSE executions[i - 1].result.data
       /\ i < Len(executions) => executions[i].result.success
  /\ Returned /\ executions # << >> =>
       LET final == executions[Len(executions)].result
       IN IF final.success
          THEN /\ executions[Len(executions)].agent
                    = toString(Len(executions))
               /\ composition.result = [success |-> TRUE, data |-> final.data]
               /\ Len(final.data) = Len(executions)
          ELSE composition.result = final

\* C32 witness: a pipeline of three agents returned the failure of its second
\* agent, which was given the first agent's data, and the third never ran.
C32_Witness ==
  /\ Returned
  /\ Len(executions) = 2
  /\ executions[2].input = <<"1">>
  /\ ~composition.result.success
  /\ composition.result.error.message = "Execution failed"


\* ------------------------------------------- the bus, type by type (C39)
\* the types emitted: an ordinary one, the catch-all's own name and the
\* name the emitter keeps for errors
DeliveryTypes == {"t", ANY, "error"}

NextDelivery ==
  \/ \E type \in {"t", "error"}, does \in {Returns, Throws} :
       busOn(type, does, "") /\ HistoryBus
  \/ \E does \in {Returns, Throws} : busOnAny(does) /\ HistoryBus
  \/ \E id \in 1..Len(handlers) : busOff(id) /\ HistoryBus
  \/ \E type \in DeliveryTypes : busEmit(type, NoContext) /\ HistoryBus
  \/ busInvoke /\ HistoryBus
  \/ busAny /\ HistoryBus
  \/ busReturn /\ HistoryBus

SpecDelivery == InitBus /\ [][NextDelivery]_vars

\* the emit of event e is over with this step: it returned or it threw
Finishes(e) ==
  /\ stack' = << >>
  /\ \/ stack # << >> /\ stack[1].event.id = e
     \/ Len(emitted') > Len(emitted) /\ e = Len(emitted')

\* the calls of listener h with event e, as places in the order of calls
Deliveries(h, e) ==
  {i \in 1..Len(delivered') : Invoked(i, h, e)'}

\* C39: when an emit is over, each handler that was subscribed to the
\* event's type and each catch-all handler has been called with the event
\* exactly once, whatever the type; a handler of another type and a handler
\* whose unsubscribe function was called have not been called with it; and
\* every call of a handler of the type came before every call of a catch-all
\* handler.
C39_DeliveredOnce ==
  [][\A e \in 1..Len(emitted') :
       Finishes(e) =>
         \A h \in 1..Len(handlers) :
           /\ Cardinality(Deliveries(h, e)) =
                IF /\ handlers[h].live
                   /\ handlers[h].type \in {emitted'[e].type, ANY}
                THEN 1 ELSE 0
           /\ \A g \in 1..Len(handlers) :
                handlers[h].type # ANY /\ handlers[g].type = ANY =>
                  \A i \in Deliveries(h, e), j \in Deliveries(g, e) : i < j]_vars
\* ------------------------------------ startJob and pauseJob, overlapping
\* the store holds one job, in the status created, and the budget that
\* setBudget(jobId, limit) gave it
InitOverlap ==
  /\ budgets = [s \in Scopes |->
                  IF s = StoredId THEN freshBudget(s, MaxLimit) ELSE NoBudget]
  /\ rootLimit = 0
  /\ IdleCallers
  /\ jobs = [j \in JobIds |->
               IF j = StoredId THEN storedJob(JOB_STATUS.CREATED) ELSE NoJob]
  /\ timings = [j \in JobIds |->
                  IF j = StoredId THEN storedTiming(JOB_STATUS.CREATED)
                  ELSE << >>]
  /\ generated = 0
  /\ now = 1
  /\ events = << >>
  /\ refetched = << >>
  /\ before = [p \in Procs |-> << >>]

\* two callers, neither waiting for the other's call to return
NextOverlap ==
  \/ \E p \in Procs :
       Len(events) < MaxEvents /\ startJobCall(p, StoredId) /\ HistoryJobs
  \/ \E p \in Procs : startJobCheck(p) /\ HistoryJobs
  \/ \E p \in Procs : startJobCanSpend(p) /\ HistoryJobs
  \/ \E p \in Procs : startJobUpdate(p) /\ HistoryJobs
  \/ \E p \in Procs : startJobEmit(p) /\ HistoryJobs
  \/ \E p \in Procs :
       Len(events) < MaxEvents /\ pauseJobCall(p, StoredId) /\ HistoryJobs
  \/ \E p \in Procs : pauseJobUpdate(p) /\ HistoryJobs
  \/ \E p \in Procs : pauseJobEmit(p) /\ HistoryJobs
  \/ \E p \in Procs : Resume(p) /\ HistoryJobs

SpecOverlap == InitOverlap /\ [][NextOverlap]_vars

\* C40: the events emitted for a job that was created are job_started and
\* job_paused in turn, job_started first, also when calls of startJob and
\* pauseJob on the job overlap.
C40_StartedPausedAlternate ==
  \A i \in 1..Len(events) :
    /\ events[i].data.jobId = StoredId
    /\ events[i].name = IF i % 2 = 1 THEN "job_started" ELSE "job_paused"
====
